---------------------------- MODULE Spec2Model ----------------------------
(***************************************************************************)
(* Toxicity analytics aggregation: the API route handlers of the           *)
(* toxicity-analyzer (paged scan of the comments table, deduplication,     *)
(* grouped aggregation, ranking) and the client-side ranking filter.       *)
(*                                                                         *)
(* Strings are sequences of one-character strings so that trim,            *)
(* toLowerCase and template-literal concatenation are computed.  Scores    *)
(* are integers (hundredths of the [0,1] score); an average is kept as     *)
(* the exact fraction [num, den].                                          *)
(***************************************************************************)
EXTENDS Integers, Sequences, FiniteSets, TLC

\* ------------------------------------------------------------------ bounds
\* rows fetched per page request (1000 in the handlers; scaled down)
pageSize == 2
\* longest comments table of the aggregation specifications
MaxStore == 3
\* longest comments table of the scan specification
MaxRows == 5
\* largest min_comments query parameter tried
MaxMinComments == 2
\* threshold changes whose filter timeouts may be outstanding at once
MaxPending == 2
\* most authors of a table of the ranking specification: one more than slice(0, 10) keeps
MaxAuthors == 11
\* authors of such a table, the last ones, whose number of comments varies
MaxFreeAuthors == 5
\* most comments handed to the toxicity analyzer
MaxComments == 3

\* ------------------------------------------------------------- JS strings
\* JSON null of a nullable string column
NULL == <<"NULL">>

IsNull(s) == s = NULL

\* a || b on nullable strings: null and '' are falsy
OrElse(a, b) == IF IsNull(a) \/ a = <<>> THEN b ELSE a

\* `${x}` of a nullable string
Str(s) == IF IsNull(s) THEN <<"n", "u", "l", "l">> ELSE s

IsSpace(ch) == ch = " "

RECURSIVE TrimStart(_)
TrimStart(s) ==
  IF s = <<>> THEN <<>>
  ELSE IF IsSpace(Head(s)) THEN TrimStart(Tail(s)) ELSE s

RECURSIVE TrimEnd(_)
TrimEnd(s) ==
  IF s = <<>> THEN <<>>
  ELSE IF IsSpace(s[Len(s)]) THEN TrimEnd(SubSeq(s, 1, Len(s) - 1)) ELSE s

\* String.prototype.trim
Trim(s) == TrimEnd(TrimStart(s))

LowerChar(ch) ==
  CASE ch = "A" -> "a"
    [] ch = "B" -> "b"
    [] OTHER -> ch

\* String.prototype.toLowerCase
ToLowerCase(s) == [i \in 1..Len(s) |-> LowerChar(s[i])]

\* ----------------------------------------------------------------- helpers
RECURSIVE SumSeq(_)
SumSeq(s) == IF s = <<>> THEN 0 ELSE Head(s) + SumSeq(Tail(s))

\* Array.prototype.slice(0, n)
Slice(s, n) == SubSeq(s, 1, IF Len(s) < n THEN Len(s) ELSE n)

\* all sequences over S of length at most n
SeqUpTo(S, n) == UNION {[1..k -> S] : k \in 0..n}

\* Array.prototype.sort with comparator (a, b) => key(b) - key(a), given as
\* Before(a, b) <=> comparator(a, b) < 0.  The sort is stable: elements the
\* comparator does not order keep their input order.
StableSort(s, Before(_, _)) ==
  LET n == Len(s)
      pos(i) == Cardinality({j \in 1..n : Before(s[j], s[i])})
                + Cardinality({j \in 1..(i - 1) :
                                 ~Before(s[j], s[i]) /\ ~Before(s[i], s[j])})
                + 1
  IN [k \in 1..n |-> s[CHOOSE i \in 1..n : pos(i) = k]]

\* exact comparison of two fractions with positive denominators
FracLess(a, b) == a.num * b.den < b.num * a.den
FracEq(a, b) == a.num * b.den = b.num * a.den

\* ------------------------------------------------------------ table rows
\* comments.id of the row at position i (the scans order by id)
IdStr ==
  <<"1", "2", "3", "4", "5", "6", "7", "8", "9", "A", "B", "C", "D", "E", "F",
    "G", "H", "I", "J", "K", "L", "M", "N", "O", "P", "Q", "R", "S", "T", "U">>

\* The embedded comments_data of a row, in the shapes the handlers test for:
\* null, an empty array, an array whose first element holds the score, or a
\* single object; present = FALSE is a null toxicity_score.
CdNull == [shape |-> "null", present |-> FALSE, toxicity_score |-> 0]
CdEmpty == [shape |-> "empty", present |-> FALSE, toxicity_score |-> 0]
CdArray(sc) == [shape |-> "array", present |-> TRUE, toxicity_score |-> sc]
CdObject(sc) == [shape |-> "object", present |-> TRUE, toxicity_score |-> sc]
CdObjectNullScore == [shape |-> "object", present |-> FALSE, toxicity_score |-> 0]
CdArrayNullScore == [shape |-> "array", present |-> FALSE, toxicity_score |-> 0]

\* rows without their id: every combination of the given column values
RowBodies(Texts, VideoIds, UserIds, Names, Likes, Times, Cds) ==
  [text : Texts, video_id : VideoIds, user_id : UserIds, author_name : Names,
   like_count : Likes, timestamp : Times, comments_data : Cds]

WithId(body, i) ==
  [id |-> <<IdStr[i]>>, text |-> body.text, video_id |-> body.video_id,
   user_id |-> body.user_id, author_name |-> body.author_name,
   like_count |-> body.like_count, timestamp |-> body.timestamp,
   comments_data |-> body.comments_data]

\* the comments tables of at most n rows over the given row bodies
Tables(Bodies, n) ==
  {[i \in 1..Len(b) |-> WithId(b[i], i)] : b \in SeqUpTo(Bodies, n)}

\* ------------------------------------------------- deduplication (Map-based)
\* the dedup key: `${(text || '').trim().toLowerCase()}_${video_id}_${user_id || author_name}`
DedupKey(comment) ==
  ToLowerCase(Trim(OrElse(comment.text, <<>>))) \o <<"_">> \o comment.video_id
    \o <<"_">> \o Str(OrElse(comment.user_id, comment.author_name))

\* the dedup loop without uniqueComments.set(key, true)
DedupLoopWithoutSet(rest, uniqueComments, deduplicatedComments) ==
  [uniqueComments |-> uniqueComments,
   deduplicatedComments |-> deduplicatedComments \o rest]

\* for (const comment of allComments) { if (!uniqueComments.has(key)) {
\*   uniqueComments.set(key, true); deduplicatedComments.push(comment) } }
RECURSIVE DedupLoop(_, _, _)
DedupLoop(rest, uniqueComments, deduplicatedComments) ==
  IF rest = <<>>
  THEN [uniqueComments |-> uniqueComments,
        deduplicatedComments |-> deduplicatedComments]
  ELSE LET comment == Head(rest)
           key == DedupKey(comment)
       IN IF key \notin uniqueComments
          THEN DedupLoop(Tail(rest), uniqueComments \cup {key},
                         Append(deduplicatedComments, comment))
          ELSE DedupLoop(Tail(rest), uniqueComments, deduplicatedComments)

DedupMap(comments) == DedupLoop(comments, {}, <<>>)

\* ------------------------------------------------ users route: aggregation
\* the score test of the users route: comments_data present, not an empty
\* array, and a toxicity_score that is neither null nor undefined
UsersHasScore(comment) ==
  /\ comment.comments_data.shape \in {"array", "object"}
  /\ comment.comments_data.present

\* comment.user_id || comment.author_name || `Anonymous_${Date.now()}_${Math.random()}`:
\* the placeholder is a value no other record gets, here the record's id
UsersAuthorKey(comment) ==
  OrElse(OrElse(comment.user_id, comment.author_name),
         <<"Anonymous_">> \o comment.id)

KeyIndex(map, key) ==
  IF \E i \in 1..Len(map) : map[i].key = key
  THEN CHOOSE i \in 1..Len(map) : map[i].key = key
  ELSE 0

\* the iteration with the group created before the score is looked at: a
\* comment without score leaves a group without comments
UsersFoldStepCreatingFirst(map, comment) ==
  LET authorKey == UsersAuthorKey(comment)
      entry == [text |-> OrElse(comment.text, <<>>),
                toxicity_score |-> comment.comments_data.toxicity_score,
                like_count |-> comment.like_count]
      i == KeyIndex(map, authorKey)
      created == IF i = 0
                 THEN Append(map, [key |-> authorKey,
                                   user_id |-> comment.user_id,
                                   author_name |-> OrElse(comment.author_name,
                                                          <<"Anonymous">>),
                                   comments |-> <<>>])
                 ELSE map
      k == IF i = 0 THEN Len(created) ELSE i
  IN IF ~UsersHasScore(comment) THEN created
     ELSE [created EXCEPT ![k].comments = Append(@, entry)]

\* one iteration of deduplicatedComments.forEach of the users route; the Map
\* is kept as the sequence of its entries in insertion order
UsersFoldStep(map, comment) ==
  IF ~UsersHasScore(comment) THEN map
  ELSE LET authorKey == UsersAuthorKey(comment)
           entry == [text |-> OrElse(comment.text, <<>>),
                     toxicity_score |-> comment.comments_data.toxicity_score,
                     like_count |-> comment.like_count]
           i == KeyIndex(map, authorKey)
       IN IF i = 0
          THEN Append(map, [key |-> authorKey,
                            user_id |-> comment.user_id,
                            author_name |-> OrElse(comment.author_name, <<"Anonymous">>),
                            comments |-> <<entry>>])
          ELSE [map EXCEPT ![i].comments = Append(@, entry)]

RECURSIVE UsersFold(_, _)
UsersFold(rest, map) ==
  IF rest = <<>> THEN map
  ELSE UsersFold(Tail(rest), UsersFoldStep(map, Head(rest)))

\* comments.reduce((max, current) => current.toxicity_score > max.toxicity_score ? current : max)
RECURSIVE MostToxic(_, _)
MostToxic(rest, max) ==
  IF rest = <<>> THEN max
  ELSE MostToxic(Tail(rest),
                 IF Head(rest).toxicity_score > max.toxicity_score
                 THEN Head(rest) ELSE max)

\* the UserStats of one Map entry
FinalizeUser(userData) ==
  LET comments == userData.comments
      toxicityScores == [i \in 1..Len(comments) |-> comments[i].toxicity_score]
      mostToxicComment == MostToxic(Tail(comments), Head(comments))
  IN [user_id |-> userData.user_id,
      author_name |-> userData.author_name,
      comment_count |-> Len(comments),
      average_toxicity |-> [num |-> SumSeq(toxicityScores), den |-> Len(toxicityScores)],
      max_toxicity |-> mostToxicComment.toxicity_score,
      most_toxic_comment |-> mostToxicComment.text,
      total_likes |-> SumSeq([i \in 1..Len(comments) |-> comments[i].like_count])]

FinalizeUsers(map) == [i \in 1..Len(map) |-> FinalizeUser(map[i])]

\* --------------------------------------------------------------- ranking
\* slice(0, 10) of the Top-K lists
TopK == 10

ByCommentCount(a, b) == b.comment_count < a.comment_count
ByAverageToxicity(a, b) == FracLess(b.average_toxicity, a.average_toxicity)
ByTotalLikes(a, b) == b.total_likes < a.total_likes

\* the three lists of the authors with two comments or more
RankAllOfRepeatAuthors(userStats) ==
  LET repeatAuthors == SelectSeq(userStats, LAMBDA user : user.comment_count >= 2)
  IN [most_active |-> StableSort(repeatAuthors, ByCommentCount),
      most_toxic |-> StableSort(repeatAuthors, ByAverageToxicity),
      most_liked |-> StableSort(repeatAuthors, ByTotalLikes),
      total_users |-> Len(repeatAuthors),
      min_comments_threshold |-> 1]

\* get_all=true: every user in each ordering, threshold reported as 1
RankAll(userStats) ==
  [most_active |-> StableSort(userStats, ByCommentCount),
   most_toxic |-> StableSort(userStats, ByAverageToxicity),
   most_liked |-> StableSort(userStats, ByTotalLikes),
   total_users |-> Len(userStats),
   min_comments_threshold |-> 1]

\* the three lists of significantUsers without slice(0, 10)
RankTopKWithoutSlice(userStats, minComments) ==
  LET significantUsers ==
        SelectSeq(userStats, LAMBDA user : user.comment_count >= minComments)
  IN [most_active |-> StableSort(significantUsers, ByCommentCount),
      most_toxic |-> StableSort(significantUsers, ByAverageToxicity),
      most_liked |-> StableSort(significantUsers, ByTotalLikes),
      total_users |-> Len(significantUsers),
      min_comments_threshold |-> minComments]

\* filter by comment_count >= minComments, sort, slice(0, 10)
RankTopK(userStats, minComments) ==
  LET significantUsers ==
        SelectSeq(userStats, LAMBDA user : user.comment_count >= minComments)
  IN [most_active |-> Slice(StableSort(significantUsers, ByCommentCount), TopK),
      most_toxic |-> Slice(StableSort(significantUsers, ByAverageToxicity), TopK),
      most_liked |-> Slice(StableSort(significantUsers, ByTotalLikes), TopK),
      total_users |-> Len(significantUsers),
      min_comments_threshold |-> minComments]

EmptyRanking(minComments) ==
  [most_active |-> <<>>, most_toxic |-> <<>>, most_liked |-> <<>>,
   total_users |-> 0, min_comments_threshold |-> minComments]

\* ------------------------------------------------------------------ state
VARIABLES
  store,                \* the channel's rows of the comments table, by id
  handler,              \* the route handler serving the request
  pc,                   \* its position: "idle", "scanning", "done"
  minComments,          \* query parameter min_comments
  getAllUsers,          \* query parameter get_all
  offset,               \* scan cursor
  hasMoreData,          \* loop condition of the scan
  allComments,          \* rows accumulated by the scan
  requests,             \* the page requests issued, in order, with their outcome
  uniqueComments,       \* keys of the dedup Map
  deduplicatedComments, \* rows retained by the dedup
  userStatsMap,         \* entries of the per-author Map, in insertion order
  userStats,            \* finalized per-author statistics
  response,             \* the NextResponse returned
  tasks,                \* the per-video promises of a timeline request
  client,               \* state of the UserAnalysis component
  videoId,              \* path parameter of a video insights request
  earlier,              \* the answer to the request before, when that was a
                        \* timeline request all of whose fetches were answered
  clock,                \* the time new Date() returns
  analyzedComments,     \* argument of aggregateResults
  aggregated,           \* what aggregateResults returned, in a one-element sequence
  userComments,         \* rows fetched by a user insights handler (its allComments)
  validByFindIndex,     \* validComments of the findIndex-based handler, in a one-element sequence
  validByMap,           \* validComments of the Map-based handler, in a one-element sequence
  classifier,           \* module variable classifier: null or the loaded pipeline
  isInitializing,       \* module variable isInitializing
  initializationError,  \* module variable initializationError: null or the Error caught
  callers,              \* each call of initializeClassifier: its position and what it returned or threw
  inputComments,        \* argument of analyzeComments
  outcomes,             \* what the classifier answered for each comment, or that the call is pending or threw
  analysis,             \* position of the analyzeComments call and what it returned
  page,                 \* which of the two versions of the Home page runs
  home,                 \* state of the Home component (its useState values)
  inFlight              \* the asynchronous work the Home component has started

vars == <<store, handler, pc, minComments, getAllUsers, offset, hasMoreData,
          allComments, requests, uniqueComments, deduplicatedComments,
          userStatsMap, userStats, response, tasks, client, videoId, earlier, clock,
          analyzedComments,
          aggregated,
          userComments,
          validByFindIndex,
          validByMap,
          classifier,
          isInitializing,
          initializationError,
          callers,
          inputComments,
          outcomes,
          analysis,
          page,
          home,
          inFlight>>

\* the times new Date() can return, all later than the stored timestamps
Now == {3, 4}

NoResponse == [status |-> 0, success |-> FALSE, data |-> <<>>]
Ok(data) == [status |-> 200, success |-> TRUE, data |-> data]
Failure(status) == [status |-> status, success |-> FALSE, data |-> <<>>]

\* a page request at an offset, answered with n rows or with an error
Returned(at, n) == [offset |-> at, returned |-> n, error |-> FALSE]
Errored(at) == [offset |-> at, returned |-> 0, error |-> TRUE]

\* rows [from, from + pageSize - 1] of an ordered result set: .range(offset, offset + pageSize - 1)
Range(rows, from) ==
  SubSeq(rows, from + 1,
         IF from + pageSize < Len(rows) THEN from + pageSize ELSE Len(rows))

\* state of a handler that has not started scanning
RoutesIdle ==
  /\ handler = "none"
  /\ pc = "idle"
  /\ minComments = 1
  /\ getAllUsers = FALSE
  /\ offset = 0
  /\ hasMoreData = TRUE
  /\ allComments = <<>>
  /\ requests = <<>>
  /\ uniqueComments = {}
  /\ deduplicatedComments = <<>>
  /\ userStatsMap = <<>>
  /\ userStats = <<>>
  /\ response = NoResponse
  /\ tasks = <<>>
  /\ client = [loaded |-> FALSE, error |-> FALSE, all_users |-> <<>>,
               userData |-> <<>>, minComments |-> 2, pending |-> <<>>]
  /\ videoId = NULL
  /\ earlier = NoResponse
  /\ clock = CHOOSE t \in Now : \A u \in Now : t <= u

\* nothing has been called yet
AggregateIdle ==
  /\ analyzedComments = <<>>
  /\ aggregated = <<>>

UserInsightsIdle ==
  /\ userComments = <<>>
  /\ validByFindIndex = <<>>
  /\ validByMap = <<>>

\* the callers of initializeClassifier the model follows
Callers == {"c1", "c2", "c3"}

NoValue == <<"none">>
Pipeline == <<"pipeline">>
LoadError == <<"Error">>

\* let classifier = null; let isInitializing = false; let initializationError = null
ClassifierIdle ==
  /\ classifier = NULL
  /\ isInitializing = FALSE
  /\ initializationError = NULL
  /\ callers = [c \in Callers |-> [pc |-> "idle", value |-> NoValue]]

\* analyzeComments has not been called
NotCalled == [pc |-> "idle", results |-> <<>>]

AnalyzeIdle ==
  /\ inputComments = <<>>
  /\ outcomes = <<>>
  /\ analysis = NotCalled

\* the useState initial values of Home
HomeInitial ==
  [isAnalyzing |-> FALSE, analysisId |-> NULL, channelId |-> NULL,
   error |-> NULL, isTransitioning |-> FALSE, isDataLoading |-> FALSE,
   channelData |-> NULL, videos |-> <<>>, toxicityData |-> <<>>,
   userData |-> NULL]

HomeIdle ==
  /\ page = "part_003"
  /\ home = HomeInitial
  /\ inFlight = {}

Idle ==
  /\ RoutesIdle
  /\ AggregateIdle
  /\ UserInsightsIdle
  /\ ClassifierIdle
  /\ AnalyzeIdle
  /\ HomeIdle

\* a request arrives: let allComments = [], offset = 0, hasMoreData = true
Start(h, m, all) ==
  /\ pc \in {"idle", "done"}
  /\ handler' = h
  /\ pc' = "scanning"
  /\ minComments' = m
  /\ getAllUsers' = all
  /\ offset' = 0
  /\ hasMoreData' = TRUE
  /\ allComments' = <<>>
  /\ requests' = <<>>
  /\ uniqueComments' = {}
  /\ deduplicatedComments' = <<>>
  /\ userStatsMap' = <<>>
  /\ userStats' = <<>>
  /\ response' = NoResponse
  /\ tasks' = <<>>
  /\ videoId' = NULL
  /\ earlier' = NoResponse
  /\ UNCHANGED <<store, client, clock, analyzedComments, aggregated, userComments,
                 validByFindIndex, validByMap, classifier,
                 isInitializing, initializationError, callers,
                 inputComments, outcomes, analysis, page, home,
                 inFlight>>

\* the loop with hasMoreData = comments.length > 0: it pages until an empty page
ScanPageUntilEmpty(h) ==
  /\ handler = h
  /\ pc = "scanning"
  /\ hasMoreData
  /\ LET comments == Range(store, offset)
     IN /\ requests' = Append(requests, Returned(offset, Len(comments)))
        /\ allComments' = allComments \o comments
        /\ offset' = IF Len(comments) > 0 THEN offset + pageSize ELSE offset
        /\ hasMoreData' = (Len(comments) > 0)
  /\ UNCHANGED <<tasks, client, videoId, earlier, clock, analyzedComments, aggregated,
                 userComments, validByFindIndex, validByMap,
                 classifier, isInitializing, initializationError,
                 callers, inputComments, outcomes, analysis, page,
                 home, inFlight>>
  /\ UNCHANGED <<store, handler, pc, minComments, getAllUsers, uniqueComments,
                 deduplicatedComments, userStatsMap, userStats, response>>

\* the loop with offset += comments.length - 1 after a full page: pages overlap
ScanPageOverlapping(h) ==
  /\ handler = h
  /\ pc = "scanning"
  /\ hasMoreData
  /\ LET comments == Range(store, offset)
     IN /\ requests' = Append(requests, Returned(offset, Len(comments)))
        /\ allComments' = allComments \o comments
        /\ offset' = IF Len(comments) = pageSize /\ pageSize > 1
                     THEN offset + pageSize - 1 ELSE offset + pageSize
        /\ hasMoreData' = (Len(comments) = pageSize)
  /\ UNCHANGED <<tasks, client, videoId, earlier, clock, analyzedComments, aggregated,
                 userComments, validByFindIndex, validByMap,
                 classifier, isInitializing, initializationError,
                 callers, inputComments, outcomes, analysis, page,
                 home, inFlight>>
  /\ UNCHANGED <<store, handler, pc, minComments, getAllUsers, uniqueComments,
                 deduplicatedComments, userStatsMap, userStats, response>>

\* one iteration of while (hasMoreData) whose page request succeeds
ScanPage(h) ==
  /\ handler = h
  /\ pc = "scanning"
  /\ hasMoreData
  /\ LET comments == Range(store, offset)
     IN /\ requests' = Append(requests, Returned(offset, Len(comments)))
        /\ IF Len(comments) > 0
           THEN /\ allComments' = allComments \o comments
                /\ offset' = offset + pageSize
                /\ hasMoreData' = (Len(comments) = pageSize)
           ELSE /\ hasMoreData' = FALSE
                /\ UNCHANGED <<allComments, offset>>
  /\ UNCHANGED <<tasks, client, videoId, earlier, clock, analyzedComments, aggregated,
                 userComments, validByFindIndex, validByMap,
                 classifier, isInitializing, initializationError,
                 callers, inputComments, outcomes, analysis, page,
                 home, inFlight>>
  /\ UNCHANGED <<store, handler, pc, minComments, getAllUsers, uniqueComments,
                 deduplicatedComments, userStatsMap, userStats, response>>

\* the state of the route handlers and of the UserAnalysis component
routeVars ==
  <<store, handler, pc, minComments, getAllUsers, offset, hasMoreData,
    allComments, requests, uniqueComments, deduplicatedComments, userStatsMap,
    userStats, response, tasks, client, videoId, earlier, clock>>

aggregateVars == <<analyzedComments, aggregated>>

userInsightVars == <<userComments, validByFindIndex, validByMap>>

classifierVars == <<classifier, isInitializing, initializationError, callers>>

analyzeVars == <<inputComments, outcomes, analysis>>

homeVars == <<page, home, inFlight>>

\* ------------------------------------------------------------ users route
UsersStart == \E m \in 1..MaxMinComments, all \in BOOLEAN : Start("users", m, all)

UsersFetchPage == ScanPage("users")

\* a handler that asks for the failed page again instead of throwing
UsersFetchErrorRetried ==
  /\ handler = "users"
  /\ pc = "scanning"
  /\ hasMoreData
  /\ Len(requests) < MaxRows
  /\ requests' = Append(requests, Errored(offset))
  /\ UNCHANGED <<store, handler, pc, minComments, getAllUsers, offset, hasMoreData,
                 allComments, uniqueComments, deduplicatedComments, userStatsMap,
                 userStats, response, tasks, client, videoId, earlier, clock,
                 analyzedComments, aggregated, userComments,
                 validByFindIndex, validByMap, classifier,
                 isInitializing, initializationError, callers,
                 inputComments, outcomes, analysis, page, home,
                 inFlight>>

\* if (error) throw error; caught by the handler's catch: status 500
UsersFetchError ==
  /\ handler = "users"
  /\ pc = "scanning"
  /\ hasMoreData
  /\ requests' = Append(requests, Errored(offset))
  /\ pc' = "done"
  /\ response' = Failure(500)
  /\ UNCHANGED <<tasks, client, videoId, earlier, clock, analyzedComments, aggregated,
                 userComments, validByFindIndex, validByMap,
                 classifier, isInitializing, initializationError,
                 callers, inputComments, outcomes, analysis, page,
                 home, inFlight>>
  /\ UNCHANGED <<store, handler, minComments, getAllUsers, offset, hasMoreData,
                 allComments, uniqueComments, deduplicatedComments, userStatsMap,
                 userStats>>

\* the rest of the handler once the scan loop has ended
UsersRespond ==
  /\ handler = "users"
  /\ pc = "scanning"
  /\ ~hasMoreData
  /\ pc' = "done"
  /\ IF Len(allComments) = 0
     THEN /\ response' = Ok(EmptyRanking(minComments))
          /\ UNCHANGED <<uniqueComments, deduplicatedComments, userStatsMap,
                         userStats>>
     ELSE LET dedup == DedupMap(allComments)
              map == UsersFold(dedup.deduplicatedComments, <<>>)
              \* comments.reduce without initial value throws on an empty
              \* array; the handler's catch answers with status 500
              thrown == \E g \in 1..Len(map) : map[g].comments = <<>>
              stats == IF thrown THEN <<>> ELSE FinalizeUsers(map)
          IN /\ uniqueComments' = dedup.uniqueComments
             /\ deduplicatedComments' = dedup.deduplicatedComments
             /\ userStatsMap' = map
             /\ userStats' = stats
             /\ response' = IF thrown THEN Failure(500)
                            ELSE Ok(IF getAllUsers THEN RankAll(stats)
                                    ELSE RankTopK(stats, minComments))
  /\ UNCHANGED <<tasks, client, videoId, earlier, clock, analyzedComments, aggregated,
                 userComments, validByFindIndex, validByMap,
                 classifier, isInitializing, initializationError,
                 callers, inputComments, outcomes, analysis, page,
                 home, inFlight>>
  /\ UNCHANGED <<store, handler, minComments, getAllUsers, offset, hasMoreData,
                 allComments, requests>>

\* ------------------------------------------- channel summary (with dedup)
\* the videos of the channel: the videos table rows joined to each comment
VideosTable ==
  <<[id |-> <<"v", "1">>, title |-> <<"T1">>, view_count |-> 100, comment_count |-> 7,
     likes |-> 5],
    [id |-> <<"v", "2">>, title |-> <<"T2">>, view_count |-> 50, comment_count |-> 9,
     likes |-> 3]>>

VideoRow(video_id) ==
  VideosTable[CHOOSE i \in 1..Len(VideosTable) : VideosTable[i].id = video_id]

Zero == [num |-> 0, den |-> 1]

\* Array.isArray(cd) ? cd[0]?.toxicity_score : cd?.toxicity_score, then
\* toxicityScore !== undefined && toxicityScore !== null
SummaryHasScore(comment) ==
  /\ comment.comments_data.shape \in {"array", "object"}
  /\ comment.comments_data.present

\* the dedup loop of the channel summary: a key is registered, and its score
\* added, only when the first row seen with an unregistered key has a score
RECURSIVE SummaryLoop(_, _, _)
SummaryLoop(rest, keys, totalToxicity) ==
  IF rest = <<>> THEN [uniqueComments |-> keys, totalToxicity |-> totalToxicity]
  ELSE LET comment == Head(rest)
           key == DedupKey(comment)
       IN IF key \notin keys /\ SummaryHasScore(comment)
          THEN SummaryLoop(Tail(rest), keys \cup {key},
                           totalToxicity + comment.comments_data.toxicity_score)
          ELSE SummaryLoop(Tail(rest), keys, totalToxicity)

SummaryData(videoCount, commentCount, averageToxicity) ==
  [video_count |-> videoCount, comment_count |-> commentCount,
   average_toxicity |-> averageToxicity]

SummaryStart == Start("summary", 1, FALSE)

\* channel lookup fails: 404; video count or video list query fails: throw, 500
SummaryLookupError ==
  /\ handler = "summary"
  /\ pc = "scanning"
  /\ requests = <<>>
  /\ pc' = "done"
  /\ \E status \in {404, 500} : response' = Failure(status)
  /\ UNCHANGED <<tasks, client, videoId, earlier, clock, analyzedComments, aggregated,
                 userComments, validByFindIndex, validByMap,
                 classifier, isInitializing, initializationError,
                 callers, inputComments, outcomes, analysis, page,
                 home, inFlight>>
  /\ UNCHANGED <<store, handler, minComments, getAllUsers, offset, hasMoreData,
                 allComments, requests, uniqueComments, deduplicatedComments,
                 userStatsMap, userStats>>

SummaryFetchPage == ScanPage("summary")

\* if (sqlError) return NextResponse.json({ success: true, data: { ...,
\*   video_count: videoCount || 0, comment_count: 0, average_toxicity: 0 } })
SummaryFetchError ==
  /\ handler = "summary"
  /\ pc = "scanning"
  /\ hasMoreData
  /\ requests' = Append(requests, Errored(offset))
  /\ pc' = "done"
  /\ response' = Ok(SummaryData(Len(VideosTable), 0, Zero))
  /\ UNCHANGED <<tasks, client, videoId, earlier, clock, analyzedComments, aggregated,
                 userComments, validByFindIndex, validByMap,
                 classifier, isInitializing, initializationError,
                 callers, inputComments, outcomes, analysis, page,
                 home, inFlight>>
  /\ UNCHANGED <<store, handler, minComments, getAllUsers, offset, hasMoreData,
                 allComments, uniqueComments, deduplicatedComments, userStatsMap,
                 userStats>>

SummaryRespond ==
  /\ handler = "summary"
  /\ pc = "scanning"
  /\ ~hasMoreData
  /\ pc' = "done"
  /\ IF Len(allComments) = 0
     THEN /\ response' = Ok(SummaryData(Len(VideosTable), 0, Zero))
          /\ UNCHANGED uniqueComments
     ELSE LET loop == SummaryLoop(allComments, {}, 0)
              commentCount == Cardinality(loop.uniqueComments)
              averageToxicity ==
                IF commentCount > 0
                THEN [num |-> loop.totalToxicity, den |-> commentCount]
                ELSE Zero
          IN /\ uniqueComments' = loop.uniqueComments
             /\ response' = Ok(SummaryData(Len(VideosTable), commentCount,
                                           averageToxicity))
  /\ UNCHANGED <<tasks, client, videoId, earlier, clock, analyzedComments, aggregated,
                 userComments, validByFindIndex, validByMap,
                 classifier, isInitializing, initializationError,
                 callers, inputComments, outcomes, analysis, page,
                 home, inFlight>>
  /\ UNCHANGED <<store, handler, minComments, getAllUsers, offset, hasMoreData,
                 allComments, requests, deduplicatedComments, userStatsMap,
                 userStats>>

\* ----------------------------------- channel summary (analyzed comments)
\* curr.comments_data?.toxicity_score || 0: the property of a single object;
\* of null or of an array it is undefined
AnalyzedScoreOrZero(comment) ==
  IF comment.comments_data.shape = "object" /\ comment.comments_data.present
  THEN comment.comments_data.toxicity_score
  ELSE 0

AnalyzedStart == Start("analyzed", 1, FALSE)

AnalyzedFetchPage == ScanPage("analyzed")

AnalyzedFetchError ==
  /\ handler = "analyzed"
  /\ pc = "scanning"
  /\ hasMoreData
  /\ requests' = Append(requests, Errored(offset))
  /\ pc' = "done"
  /\ response' = Failure(500)
  /\ UNCHANGED <<tasks, client, videoId, earlier, clock, analyzedComments, aggregated,
                 userComments, validByFindIndex, validByMap,
                 classifier, isInitializing, initializationError,
                 callers, inputComments, outcomes, analysis, page,
                 home, inFlight>>
  /\ UNCHANGED <<store, handler, minComments, getAllUsers, offset, hasMoreData,
                 allComments, uniqueComments, deduplicatedComments, userStatsMap,
                 userStats>>

AnalyzedRespond ==
  /\ handler = "analyzed"
  /\ pc = "scanning"
  /\ ~hasMoreData
  /\ pc' = "done"
  /\ response' =
       IF Len(allComments) = 0
       THEN Ok(SummaryData(Len(VideosTable), 0, Zero))
       ELSE Ok(SummaryData(
              Len(VideosTable), Len(allComments),
              [num |-> SumSeq([i \in 1..Len(allComments) |->
                                 AnalyzedScoreOrZero(allComments[i])]),
               den |-> Len(allComments)]))
  /\ UNCHANGED <<tasks, client, videoId, earlier, clock, analyzedComments, aggregated,
                 userComments, validByFindIndex, validByMap,
                 classifier, isInitializing, initializationError,
                 callers, inputComments, outcomes, analysis, page,
                 home, inFlight>>
  /\ UNCHANGED <<store, handler, minComments, getAllUsers, offset, hasMoreData,
                 allComments, requests, uniqueComments, deduplicatedComments,
                 userStatsMap, userStats>>

\* ------------------------------------------------------ complete analysis
\* validComments: comments_data truthy and, for an array, non-empty with
\* [0]?.toxicity_score !== undefined; a null score is not undefined
CompleteIsValid(comment) == comment.comments_data.shape \in {"array", "object"}

\* getToxicityScore; a null score enters the arithmetic as 0
GetToxicityScore(comment) == comment.comments_data.toxicity_score

IndexOf(map, Is(_)) ==
  IF \E i \in 1..Len(map) : Is(map[i])
  THEN CHOOSE i \in 1..Len(map) : Is(map[i])
  ELSE 0

\* one iteration of the videoToxicityMap fold
TimelineFoldStep(map, comment) ==
  LET i == IndexOf(map, LAMBDA e : e.video_id = comment.video_id)
      created ==
        IF i = 0
        THEN Append(map, [video_id |-> comment.video_id,
                          video_title |-> VideoRow(comment.video_id).title,
                          toxicity_scores |-> <<>>,
                          earliest_timestamp |-> comment.timestamp])
        ELSE map
      k == IF i = 0 THEN Len(created) ELSE i
      pushed == [created EXCEPT ![k].toxicity_scores =
                   Append(@, GetToxicityScore(comment))]
  IN IF comment.timestamp < pushed[k].earliest_timestamp
     THEN [pushed EXCEPT ![k].earliest_timestamp = comment.timestamp]
     ELSE pushed

RECURSIVE TimelineFold(_, _)
TimelineFold(rest, map) ==
  IF rest = <<>> THEN map
  ELSE TimelineFold(Tail(rest), TimelineFoldStep(map, Head(rest)))

ByTimestampAsc(a, b) == a.timestamp < b.timestamp

\* toxicityData: one point per video, ascending by timestamp
CompleteTimeline(validComments) ==
  LET map == TimelineFold(validComments, <<>>)
  IN StableSort([i \in 1..Len(map) |->
                   [timestamp |-> map[i].earliest_timestamp,
                    toxicity_score |-> [num |-> SumSeq(map[i].toxicity_scores),
                                        den |-> Len(map[i].toxicity_scores)],
                    video_title |-> map[i].video_title,
                    video_id |-> map[i].video_id]],
                ByTimestampAsc)

\* one iteration of the videoStatsMap fold
VideoFoldStep(map, comment) ==
  LET i == IndexOf(map, LAMBDA e : e.id = comment.video_id)
      video == VideoRow(comment.video_id)
  IN IF i = 0
     THEN Append(map, [id |-> comment.video_id, title |-> video.title,
                       view_count |-> video.view_count,
                       comment_count |-> video.comment_count,
                       toxicity_scores |-> <<GetToxicityScore(comment)>>])
     ELSE [map EXCEPT ![i].toxicity_scores = Append(@, GetToxicityScore(comment))]

RECURSIVE VideoFold(_, _)
VideoFold(rest, map) ==
  IF rest = <<>> THEN map
  ELSE VideoFold(Tail(rest), VideoFoldStep(map, Head(rest)))

ByAverageDesc(a, b) == FracLess(b.average_toxicity, a.average_toxicity)

\* videosData: per-video statistics, descending by average toxicity
CompleteVideos(validComments) ==
  LET map == VideoFold(validComments, <<>>)
  IN StableSort([i \in 1..Len(map) |->
                   [id |-> map[i].id, title |-> map[i].title,
                    view_count |-> map[i].view_count,
                    comment_count |-> map[i].comment_count,
                    average_toxicity |->
                      IF Len(map[i].toxicity_scores) > 0
                      THEN [num |-> SumSeq(map[i].toxicity_scores),
                            den |-> Len(map[i].toxicity_scores)]
                      ELSE Zero]],
                ByAverageDesc)

\* comment.user_id || comment.author_name || `Anonymous_${comment.id}`
CompleteAuthorKey(comment) ==
  OrElse(OrElse(comment.user_id, comment.author_name),
         <<"Anonymous_">> \o comment.id)

\* one iteration of the userStatsMap fold of the complete analysis
CompleteUserFoldStep(map, comment) ==
  LET authorKey == CompleteAuthorKey(comment)
      entry == [text |-> OrElse(comment.text, <<>>),
                toxicity_score |-> GetToxicityScore(comment),
                like_count |-> comment.like_count]
      i == KeyIndex(map, authorKey)
  IN IF i = 0
     THEN Append(map, [key |-> authorKey,
                       user_id |-> comment.user_id,
                       author_name |-> OrElse(comment.author_name, <<"Anonymous">>),
                       comments |-> <<entry>>])
     ELSE [map EXCEPT ![i].comments = Append(@, entry)]

RECURSIVE CompleteUserFold(_, _)
CompleteUserFold(rest, map) ==
  IF rest = <<>> THEN map
  ELSE CompleteUserFold(Tail(rest), CompleteUserFoldStep(map, Head(rest)))

\* uniqueVideoIds.size over all fetched comments
CompleteVideoCount(comments) ==
  Cardinality({comments[i].video_id : i \in 1..Len(comments)})

CompleteStart ==
  \E m \in 1..MaxMinComments, all \in BOOLEAN : Start("complete", m, all)

\* channelError || !channel: 404
CompleteLookupError ==
  /\ handler = "complete"
  /\ pc = "scanning"
  /\ requests = <<>>
  /\ pc' = "done"
  /\ response' = Failure(404)
  /\ UNCHANGED <<tasks, client, videoId, earlier, clock, analyzedComments, aggregated,
                 userComments, validByFindIndex, validByMap,
                 classifier, isInitializing, initializationError,
                 callers, inputComments, outcomes, analysis, page,
                 home, inFlight>>
  /\ UNCHANGED <<store, handler, minComments, getAllUsers, offset, hasMoreData,
                 allComments, requests, uniqueComments, deduplicatedComments,
                 userStatsMap, userStats>>

CompleteFetchPage == ScanPage("complete")

CompleteFetchError ==
  /\ handler = "complete"
  /\ pc = "scanning"
  /\ hasMoreData
  /\ requests' = Append(requests, Errored(offset))
  /\ pc' = "done"
  /\ response' = Failure(500)
  /\ UNCHANGED <<tasks, client, videoId, earlier, clock, analyzedComments, aggregated,
                 userComments, validByFindIndex, validByMap,
                 classifier, isInitializing, initializationError,
                 callers, inputComments, outcomes, analysis, page,
                 home, inFlight>>
  /\ UNCHANGED <<store, handler, minComments, getAllUsers, offset, hasMoreData,
                 allComments, uniqueComments, deduplicatedComments, userStatsMap,
                 userStats>>

CompleteRespond ==
  /\ handler = "complete"
  /\ pc = "scanning"
  /\ ~hasMoreData
  /\ pc' = "done"
  /\ IF Len(allComments) = 0
     THEN /\ response' = Ok([channel |-> SummaryData(0, 0, Zero),
                             toxicity |-> <<>>,
                             videos |-> <<>>,
                             users |-> EmptyRanking(minComments)])
          /\ UNCHANGED <<userStatsMap, userStats>>
     ELSE LET validComments == SelectSeq(allComments, CompleteIsValid)
              averageToxicity ==
                IF Len(validComments) > 0
                THEN [num |-> SumSeq([i \in 1..Len(validComments) |->
                                        GetToxicityScore(validComments[i])]),
                      den |-> Len(validComments)]
                ELSE Zero
              map == CompleteUserFold(validComments, <<>>)
              stats == FinalizeUsers(map)
          IN /\ userStatsMap' = map
             /\ userStats' = stats
             /\ response' =
                  Ok([channel |-> SummaryData(CompleteVideoCount(allComments),
                                              Len(validComments), averageToxicity),
                      toxicity |-> CompleteTimeline(validComments),
                      videos |-> CompleteVideos(validComments),
                      users |-> IF getAllUsers THEN RankAll(stats)
                                ELSE RankTopK(stats, minComments)])
  /\ UNCHANGED <<tasks, client, videoId, earlier, clock, analyzedComments, aggregated,
                 userComments, validByFindIndex, validByMap,
                 classifier, isInitializing, initializationError,
                 callers, inputComments, outcomes, analysis, page,
                 home, inFlight>>
  /\ UNCHANGED <<store, handler, minComments, getAllUsers, offset, hasMoreData,
                 allComments, requests, uniqueComments, deduplicatedComments>>


\* --------------------------------------------------------------- analytics
\* a JavaScript quotient num / den: with den = 0 it is NaN (num = 0) or an
\* infinity, and no number
Quotient(num, den) == [num |-> num, den |-> den]

IsNumber(q) == q.den # 0

\* c.comments_data?.toxicity_score || 0: only a single object has the property
AnalyticsScoreOrZero(c) ==
  IF c.comments_data.shape = "object" /\ c.comments_data.present
  THEN c.comments_data.toxicity_score ELSE 0

\* comments.reduce((max, c) => Key(c) > Key(max) ? c : max, comments[0]): the
\* first comment whose key no other exceeds; undefined, here the empty
\* sequence, for no comments
MaxOrUndefined(comments, Key(_)) ==
  IF comments = <<>> THEN <<>>
  ELSE LET i == CHOOSE i \in 1..Len(comments) :
                  /\ \A j \in 1..Len(comments) : Key(comments[j]) <= Key(comments[i])
                  /\ \A j \in 1..(i - 1) : Key(comments[j]) < Key(comments[i])
       IN <<comments[i]>>

\* comments.reduce((acc, c) => { acc[c.user_id] = (acc[c.user_id] || 0) + amount }, {}),
\* kept as the entries of the object in insertion order; rest pairs the key
\* String(c.user_id) of each comment with its amount
RECURSIVE TallyByUser(_, _)
TallyByUser(rest, acc) ==
  IF rest = <<>> THEN acc
  ELSE LET i == KeyIndex(acc, Head(rest).key)
       IN TallyByUser(Tail(rest),
                      IF i = 0 THEN Append(acc, Head(rest))
                      ELSE [acc EXCEPT ![i].value = @ + Head(rest).value])

\* Object.entries(...).reduce((max, [id, n]) => n > max.n ? { id, n } : max, { id: '', n: 0 })
RECURSIVE MaxEntry(_, _)
MaxEntry(entries, max) ==
  IF entries = <<>> THEN max
  ELSE MaxEntry(Tail(entries),
                IF Head(entries).value > max.value THEN Head(entries) ELSE max)

\* correlation.toxicityVsLikes: a comment enters when its score is truthy
RECURSIVE ToxicityVsLikes(_, _)
ToxicityVsLikes(rest, acc) ==
  IF rest = <<>> THEN acc
  ELSE LET c == Head(rest)
       IN ToxicityVsLikes(Tail(rest),
            IF AnalyticsScoreOrZero(c) # 0
            THEN [sum |-> acc.sum + AnalyticsScoreOrZero(c) * c.like_count,
                  count |-> acc.count + 1]
            ELSE acc)

\* the analytics object
Analytics(videos, comments) ==
  LET correlation == ToxicityVsLikes(comments, [sum |-> 0, count |-> 0])
  IN [channel |->
        [totalVideos |-> Len(videos),
         totalComments |-> Len(comments),
         averageLikesPerVideo |->
           Quotient(SumSeq([i \in 1..Len(videos) |-> videos[i].likes]), Len(videos)),
         averageViewsPerVideo |->
           Quotient(SumSeq([i \in 1..Len(videos) |-> videos[i].view_count]), Len(videos))],
      comments |->
        [totalToxic |->
           Len(SelectSeq(comments, LAMBDA c : AnalyticsScoreOrZero(c) > 50)),
         averageToxicity |->
           Quotient(SumSeq([i \in 1..Len(comments) |-> AnalyticsScoreOrZero(comments[i])]),
                    Len(comments)),
         mostLikedComment |->
           MaxOrUndefined(comments, LAMBDA c : c.like_count),
         mostToxicComment |->
           MaxOrUndefined(comments, AnalyticsScoreOrZero)],
      userStats |->
        [mostActiveUser |->
           MaxEntry(TallyByUser([i \in 1..Len(comments) |->
                                   [key |-> Str(comments[i].user_id), value |-> 1]],
                                <<>>),
                    [key |-> <<>>, value |-> 0]),
         mostLikedUser |->
           MaxEntry(TallyByUser([i \in 1..Len(comments) |->
                                   [key |-> Str(comments[i].user_id),
                                    value |-> comments[i].like_count]],
                                <<>>),
                    [key |-> <<>>, value |-> 0])],
      correlation |->
        [toxicityVsLikes |-> correlation,
         coefficient |-> IF correlation.count > 0
                         THEN Quotient(correlation.sum, correlation.count)
                         ELSE Zero]]

AnalyticsStart == Start("analytics", 1, FALSE)

\* the channel, videos or comments query fails: throw, status 500
AnalyticsError ==
  /\ handler = "analytics"
  /\ pc = "scanning"
  /\ requests' = Append(requests, Errored(0))
  /\ pc' = "done"
  /\ response' = Failure(500)
  /\ UNCHANGED <<store, handler, minComments, getAllUsers, offset, hasMoreData,
                 allComments, uniqueComments, deduplicatedComments, userStatsMap,
                 userStats, tasks, client, videoId, earlier, clock,
                 analyzedComments, aggregated, userComments,
                 validByFindIndex, validByMap, classifier,
                 isInitializing, initializationError, callers,
                 inputComments, outcomes, analysis, page, home,
                 inFlight>>

\* the comments of the channel's videos in one query, then the analytics
AnalyticsRespond ==
  /\ handler = "analytics"
  /\ pc = "scanning"
  /\ allComments' = store
  /\ requests' = Append(requests, Returned(0, Len(store)))
  /\ hasMoreData' = FALSE
  /\ pc' = "done"
  /\ response' = Ok(Analytics(VideosTable, store))
  /\ UNCHANGED <<store, handler, minComments, getAllUsers, offset,
                 uniqueComments, deduplicatedComments, userStatsMap,
                 userStats, tasks, client, videoId, earlier, clock,
                 analyzedComments, aggregated, userComments,
                 validByFindIndex, validByMap, classifier,
                 isInitializing, initializationError, callers,
                 inputComments, outcomes, analysis, page, home,
                 inFlight>>

\* ---------------------------------------------------------- video insights
\* The handler types comments_data as { toxicity_score } | null and its query
\* leaves out the rows whose comments_data is null.
\* `${c.user_id || c.author_name || 'anonymous'}_${c.text?.trim().toLowerCase() || ''}`
InsightsKey(c) ==
  OrElse(OrElse(c.user_id, c.author_name), <<"anonymous">>) \o <<"_">>
    \o ToLowerCase(Trim(OrElse(c.text, <<>>)))

\* allComments.filter((comment, index, array) => array.findIndex(same key) === index)
InsightsDedup(comments) ==
  LET kept == SelectSeq([i \in 1..Len(comments) |-> [at |-> i, c |-> comments[i]]],
                        LAMBDA e : \A j \in 1..(e.at - 1) :
                                     InsightsKey(comments[j]) # InsightsKey(e.c))
  IN [i \in 1..Len(kept) |-> kept[i].c]

\* c.comments_data is truthy
InsightsHasData(c) == c.comments_data.shape # "null"

\* c.comments_data.toxicity_score; a null score enters arithmetic and
\* comparisons as 0
InsightsScore(c) == c.comments_data.toxicity_score

\* slice(0, 5) of the comment lists
InsightsTop == 5

ByScoreDesc(a, b) == InsightsScore(b) < InsightsScore(a)
ByLikesDesc(a, b) == b.like_count < a.like_count

\* the fields kept of a listed comment
InsightsComment(c) ==
  [id |-> c.id, text |-> c.text, author_name |-> c.author_name,
   like_count |-> c.like_count, toxicity_score |-> InsightsScore(c),
   timestamp |-> c.timestamp]

\* Math.max(...scores) and Math.min(...scores): an infinity for no scores
MaxOf(scores) ==
  IF scores = <<>> THEN Quotient(-1, 0)
  ELSE Quotient(CHOOSE x \in {scores[i] : i \in 1..Len(scores)} :
                  \A i \in 1..Len(scores) : scores[i] <= x, 1)

MinOf(scores) ==
  IF scores = <<>> THEN Quotient(1, 0)
  ELSE Quotient(CHOOSE x \in {scores[i] : i \in 1..Len(scores)} :
                  \A i \in 1..Len(scores) : x <= scores[i], 1)

\* comment.user_id || comment.author_name || 'Anonymous'
InsightsUserId(comment) ==
  OrElse(OrElse(comment.user_id, comment.author_name), <<"Anonymous">>)

\* one iteration of deduplicatedComments.forEach of the video insights
InsightsFoldStep(map, comment) ==
  IF ~InsightsHasData(comment) THEN map
  ELSE LET userId == InsightsUserId(comment)
           i == KeyIndex(map, userId)
           created ==
             IF i = 0
             THEN Append(map, [key |-> userId,
                               user_id |-> comment.user_id,
                               author_name |-> OrElse(comment.author_name, <<"Anonymous">>),
                               comment_count |-> 0,
                               total_toxicity |-> 0,
                               total_likes |-> 0])
             ELSE map
           k == IF i = 0 THEN Len(created) ELSE i
       IN [created EXCEPT ![k].comment_count = @ + 1,
                          ![k].total_toxicity = @ + InsightsScore(comment),
                          ![k].total_likes = @ + comment.like_count]

RECURSIVE InsightsFold(_, _)
InsightsFold(rest, map) ==
  IF rest = <<>> THEN map
  ELSE InsightsFold(Tail(rest), InsightsFoldStep(map, Head(rest)))

\* users.reduce((max, user) => average(user) > average(max) ? user : max, users[0])
MostToxicUser(users) ==
  IF users = <<>> THEN <<>>
  ELSE LET avg(u) == Quotient(u.total_toxicity, u.comment_count)
           i == CHOOSE i \in 1..Len(users) :
                  /\ \A j \in 1..Len(users) : ~FracLess(avg(users[i]), avg(users[j]))
                  /\ \A j \in 1..(i - 1) : FracLess(avg(users[j]), avg(users[i]))
       IN <<users[i]>>

\* deduplicatedComments.reduce((earliest, comment) => ..., deduplicatedComments[0].timestamp)
EarliestTimestamp(comments) ==
  CHOOSE t \in {comments[i].timestamp : i \in 1..Len(comments)} :
    \A i \in 1..Len(comments) : t <= comments[i].timestamp

\* stats and lists of the empty branch
EmptyInsights(video) ==
  [video |-> video,
   stats |-> [total_comments |-> 0, average_toxicity |-> Zero,
              max_toxicity |-> Zero, min_toxicity |-> Zero,
              high_toxicity_count |-> 0, medium_toxicity_count |-> 0,
              low_toxicity_count |-> 0],
   most_toxic_comments |-> <<>>,
   most_liked_comments |-> <<>>,
   user_stats |-> [total_unique_users |-> 0, most_active_user |-> <<>>,
                   most_toxic_user |-> <<>>]]

\* the response data for a video with deduplicated comments; an absent
\* user, null in the response, is the empty sequence
InsightsData(video, comments, users) ==
  LET withData == SelectSeq(comments, InsightsHasData)
      toxicityScores == [i \in 1..Len(withData) |-> InsightsScore(withData[i])]
      count(Test(_)) == Len(SelectSeq(toxicityScores, Test))
      top(list) == LET cut == Slice(list, InsightsTop)
                   IN [i \in 1..Len(cut) |-> InsightsComment(cut[i])]
      mostActiveUser == MaxOrUndefined(users, LAMBDA u : u.comment_count)
      mostToxicUser == MostToxicUser(users)
  IN [video |-> [id |-> video.id, title |-> video.title,
                 view_count |-> video.view_count,
                 comment_count |-> video.comment_count,
                 upload_date |-> EarliestTimestamp(comments)],
      stats |-> [total_comments |-> Len(comments),
                 average_toxicity |-> Quotient(SumSeq(toxicityScores), Len(toxicityScores)),
                 max_toxicity |-> MaxOf(toxicityScores),
                 min_toxicity |-> MinOf(toxicityScores),
                 high_toxicity_count |-> count(LAMBDA score : score >= 60),
                 medium_toxicity_count |-> count(LAMBDA score : score >= 30 /\ score < 60),
                 low_toxicity_count |-> count(LAMBDA score : score < 30)],
      most_toxic_comments |-> top(StableSort(withData, ByScoreDesc)),
      most_liked_comments |->
        top(StableSort(SelectSeq(withData, LAMBDA c : c.like_count > 0), ByLikesDesc)),
      user_stats |->
        [total_unique_users |-> Len(users),
         most_active_user |->
           [i \in 1..Len(mostActiveUser) |->
              [author_name |-> mostActiveUser[i].author_name,
               comment_count |-> mostActiveUser[i].comment_count,
               total_likes |-> mostActiveUser[i].total_likes]],
         most_toxic_user |->
           [i \in 1..Len(mostToxicUser) |->
              [author_name |-> mostToxicUser[i].author_name,
               comment_count |-> mostToxicUser[i].comment_count,
               average_toxicity |-> Quotient(mostToxicUser[i].total_toxicity,
                                             mostToxicUser[i].comment_count)]]]]

\* a request for the insights of one of the channel's videos
InsightsStart ==
  /\ pc \in {"idle", "done"}
  /\ handler' = "insights"
  /\ pc' = "scanning"
  /\ \E v \in 1..Len(VideosTable) : videoId' = VideosTable[v].id
  /\ minComments' = 1
  /\ getAllUsers' = FALSE
  /\ offset' = 0
  /\ hasMoreData' = TRUE
  /\ allComments' = <<>>
  /\ requests' = <<>>
  /\ uniqueComments' = {}
  /\ deduplicatedComments' = <<>>
  /\ userStatsMap' = <<>>
  /\ userStats' = <<>>
  /\ response' = NoResponse
  /\ tasks' = <<>>
  /\ earlier' = NoResponse
  /\ UNCHANGED <<store, client, clock, analyzedComments, aggregated, userComments,
                 validByFindIndex, validByMap, classifier,
                 isInitializing, initializationError, callers,
                 inputComments, outcomes, analysis, page, home,
                 inFlight>>

\* if (videoError || !video): 404
InsightsLookupError ==
  /\ handler = "insights"
  /\ pc = "scanning"
  /\ requests = <<>>
  /\ pc' = "done"
  /\ response' = Failure(404)
  /\ UNCHANGED <<store, handler, minComments, getAllUsers, offset, hasMoreData,
                 allComments, requests, uniqueComments, deduplicatedComments,
                 userStatsMap, userStats, tasks, client, videoId, earlier, clock,
                 analyzedComments, aggregated, userComments,
                 validByFindIndex, validByMap, classifier,
                 isInitializing, initializationError, callers,
                 inputComments, outcomes, analysis, page, home,
                 inFlight>>

\* one iteration of while (hasMoreData) over the comments of the video
InsightsFetchPage ==
  /\ handler = "insights"
  /\ pc = "scanning"
  /\ hasMoreData
  /\ LET comments ==
           Range(SelectSeq(store, LAMBDA row : /\ row.video_id = videoId
                                               /\ row.comments_data.shape # "null"),
                 offset)
     IN /\ requests' = Append(requests, Returned(offset, Len(comments)))
        /\ IF Len(comments) > 0
           THEN /\ allComments' = allComments \o comments
                /\ offset' = offset + pageSize
                /\ hasMoreData' = (Len(comments) = pageSize)
           ELSE /\ hasMoreData' = FALSE
                /\ UNCHANGED <<allComments, offset>>
  /\ UNCHANGED <<store, handler, pc, minComments, getAllUsers, uniqueComments,
                 deduplicatedComments, userStatsMap, userStats, response,
                 tasks, client, videoId, earlier, clock,
                 analyzedComments, aggregated, userComments,
                 validByFindIndex, validByMap, classifier,
                 isInitializing, initializationError, callers,
                 inputComments, outcomes, analysis, page, home,
                 inFlight>>

\* throw commentsError; caught: status 500
InsightsFetchError ==
  /\ handler = "insights"
  /\ pc = "scanning"
  /\ hasMoreData
  /\ requests' = Append(requests, Errored(offset))
  /\ pc' = "done"
  /\ response' = Failure(500)
  /\ UNCHANGED <<store, handler, minComments, getAllUsers, offset, hasMoreData,
                 allComments, uniqueComments, deduplicatedComments, userStatsMap,
                 userStats, tasks, client, videoId, earlier, clock,
                 analyzedComments, aggregated, userComments,
                 validByFindIndex, validByMap, classifier,
                 isInitializing, initializationError, callers,
                 inputComments, outcomes, analysis, page, home,
                 inFlight>>

\* the rest of the handler once the scan loop has ended
InsightsRespond ==
  /\ handler = "insights"
  /\ pc = "scanning"
  /\ ~hasMoreData
  /\ pc' = "done"
  /\ LET dedup == InsightsDedup(allComments)
         map == InsightsFold(dedup, <<>>)
     IN /\ deduplicatedComments' = dedup
        /\ userStatsMap' = IF Len(dedup) = 0 THEN <<>> ELSE map
        /\ response' = Ok(IF Len(dedup) = 0 THEN EmptyInsights(VideoRow(videoId))
                          ELSE InsightsData(VideoRow(videoId), dedup, map))
  /\ UNCHANGED <<store, handler, minComments, getAllUsers, offset, hasMoreData,
                 allComments, requests, uniqueComments, userStats, tasks, client,
                 videoId, earlier, clock, analyzedComments, aggregated,
                 userComments, validByFindIndex, validByMap,
                 classifier, isInitializing, initializationError,
                 callers, inputComments, outcomes, analysis, page,
                 home, inFlight>>

\* ------------------------------------- toxicity timeline, concurrent fetches
\* .eq('video_id', video.id) ... .order('timestamp', { ascending: true })
\* a timestamp of 0 is a null timestamp, which the storage orders last
ByTimestampNullsLast(a, b) ==
  a.timestamp # 0 /\ (b.timestamp = 0 \/ a.timestamp < b.timestamp)

VideoComments(rows, video_id) ==
  StableSort(SelectSeq(rows, LAMBDA row : row.video_id = video_id),
             ByTimestampNullsLast)

\* the promise of one video: let videoComments = [], offset = 0, hasMoreData = true
NewTask ==
  [pc |-> "scanning", offset |-> 0, hasMoreData |-> TRUE, videoComments |-> <<>>,
   requests |-> <<>>, result |-> <<>>]

\* the score read inside the dedup loop: neither undefined nor null
ToxicityHasScore(comment) ==
  /\ comment.comments_data.shape \in {"array", "object"}
  /\ comment.comments_data.present

\* for (const comment of videoComments): a key is set, and the earliest
\* timestamp moved, only for the first row of the key and only if it has a score
RECURSIVE ToxicityLoop(_, _, _, _)
ToxicityLoop(rest, keys, values, earliestTimestamp) ==
  IF rest = <<>>
  THEN [uniqueComments |-> keys, values |-> values,
        earliestTimestamp |-> earliestTimestamp]
  ELSE LET comment == Head(rest)
           key == DedupKey(comment)
       IN IF key \notin keys /\ ToxicityHasScore(comment)
          THEN ToxicityLoop(Tail(rest), keys \cup {key},
                            Append(values, comment.comments_data.toxicity_score),
                            IF earliestTimestamp = 0
                               \/ comment.timestamp < earliestTimestamp
                            THEN comment.timestamp ELSE earliestTimestamp)
          ELSE ToxicityLoop(Tail(rest), keys, values, earliestTimestamp)

\* what the promise of a video resolves to once its scan has ended: no entry
\* (null), or the video's point of the timeline
VideoPoint(video, videoComments, now) ==
  IF Len(videoComments) = 0 THEN <<>>
  ELSE LET loop == ToxicityLoop(videoComments, {}, <<>>, 0)
       IN IF Cardinality(loop.uniqueComments) = 0 THEN <<>>
          ELSE <<[timestamp |-> IF loop.earliestTimestamp = 0 THEN now
                                ELSE loop.earliestTimestamp,
                  toxicity_score |-> [num |-> SumSeq(loop.values),
                                      den |-> Cardinality(loop.uniqueComments)],
                  video_title |-> video.title,
                  video_id |-> video.id]>>

RECURSIVE Flatten(_)
Flatten(ss) == IF ss = <<>> THEN <<>> ELSE Head(ss) \o Flatten(Tail(ss))

\* no page request of the timeline request was answered with an error
AllFetched ==
  \A v \in 1..Len(tasks) :
    \A k \in 1..Len(tasks[v].requests) : ~tasks[v].requests[k].error

\* a timeline request arrives
ToxicityStart ==
  /\ pc \in {"idle", "done"}
  /\ handler' = "toxicity"
  /\ pc' = "videos"
  /\ minComments' = 1
  /\ getAllUsers' = FALSE
  /\ offset' = 0
  /\ hasMoreData' = TRUE
  /\ allComments' = <<>>
  /\ requests' = <<>>
  /\ uniqueComments' = {}
  /\ deduplicatedComments' = <<>>
  /\ userStatsMap' = <<>>
  /\ userStats' = <<>>
  /\ response' = NoResponse
  /\ tasks' = <<>>
  /\ videoId' = NULL
  /\ earlier' = IF handler = "toxicity" /\ pc = "done" /\ AllFetched
                THEN response ELSE NoResponse
  /\ UNCHANGED <<store, client, clock, analyzedComments, aggregated, userComments,
                 validByFindIndex, validByMap, classifier,
                 isInitializing, initializationError, callers,
                 inputComments, outcomes, analysis, page, home,
                 inFlight>>

\* if (videosError) throw videosError: status 500
ToxicityVideosError ==
  /\ handler = "toxicity"
  /\ pc = "videos"
  /\ pc' = "done"
  /\ response' = Failure(500)
  /\ UNCHANGED <<store, handler, minComments, getAllUsers, offset, hasMoreData,
                 allComments, requests, uniqueComments, deduplicatedComments,
                 userStatsMap, userStats, tasks, client, videoId, earlier, clock,
                 analyzedComments, aggregated, userComments,
                 validByFindIndex, validByMap, classifier,
                 isInitializing, initializationError, callers,
                 inputComments, outcomes, analysis, page, home,
                 inFlight>>

\* Promise.all(videos.map(async (video) => ...)): one promise per video
ToxicitySpawn ==
  /\ handler = "toxicity"
  /\ pc = "videos"
  /\ pc' = "fetching"
  /\ tasks' = [v \in 1..Len(VideosTable) |-> NewTask]
  /\ UNCHANGED <<store, handler, minComments, getAllUsers, offset, hasMoreData,
                 allComments, requests, uniqueComments, deduplicatedComments,
                 userStatsMap, userStats, response, client, videoId, earlier, clock,
                 analyzedComments, aggregated, userComments,
                 validByFindIndex, validByMap, classifier,
                 isInitializing, initializationError, callers,
                 inputComments, outcomes, analysis, page, home,
                 inFlight>>

\* a page request of video v is answered: the promise runs to its next await,
\* or to its end when the page was short
ToxicityFetchPage(v) ==
  /\ handler = "toxicity"
  /\ pc = "fetching"
  /\ tasks[v].pc = "scanning"
  /\ LET task == tasks[v]
         comments == Range(VideoComments(store, VideosTable[v].id), task.offset)
         videoComments == task.videoComments \o comments
         asked == Append(task.requests, Returned(task.offset, Len(comments)))
     IN \E now \in {t \in Now : t >= clock} :
          /\ clock' = now
          /\ tasks' = [tasks EXCEPT ![v] =
               IF Len(comments) = pageSize
               THEN [task EXCEPT !.videoComments = videoComments,
                                 !.offset = task.offset + pageSize,
                                 !.requests = asked]
               ELSE [pc |-> "done",
                     offset |-> IF Len(comments) > 0 THEN task.offset + pageSize
                                ELSE task.offset,
                     hasMoreData |-> FALSE,
                     videoComments |-> videoComments,
                     requests |-> asked,
                     result |-> VideoPoint(VideosTable[v], videoComments, now)]]
  /\ UNCHANGED <<store, handler, pc, minComments, getAllUsers, offset, hasMoreData,
                 allComments, requests, uniqueComments, deduplicatedComments,
                 userStatsMap, userStats, response, client, videoId, earlier,
                 analyzedComments, aggregated, userComments,
                 validByFindIndex, validByMap, classifier,
                 isInitializing, initializationError, callers,
                 inputComments, outcomes, analysis, page, home,
                 inFlight>>

\* if (commentsError) { console.error(...); return null; }
ToxicityFetchError(v) ==
  /\ handler = "toxicity"
  /\ pc = "fetching"
  /\ tasks[v].pc = "scanning"
  /\ tasks' = [tasks EXCEPT ![v].pc = "done",
                            ![v].requests = Append(@, Errored(tasks[v].offset)),
                            ![v].result = <<>>]
  /\ UNCHANGED <<store, handler, pc, minComments, getAllUsers, offset, hasMoreData,
                 allComments, requests, uniqueComments, deduplicatedComments,
                 userStatsMap, userStats, response, client, videoId, earlier, clock,
                 analyzedComments, aggregated, userComments,
                 validByFindIndex, validByMap, classifier,
                 isInitializing, initializationError, callers,
                 inputComments, outcomes, analysis, page, home,
                 inFlight>>

\* every promise has resolved: filter out the nulls, sort by timestamp
ToxicityRespond ==
  /\ handler = "toxicity"
  /\ pc = "fetching"
  /\ \A v \in 1..Len(tasks) : tasks[v].pc = "done"
  /\ pc' = "done"
  /\ response' = Ok(StableSort(Flatten([v \in 1..Len(tasks) |-> tasks[v].result]),
                               ByTimestampAsc))
  /\ UNCHANGED <<store, handler, minComments, getAllUsers, offset, hasMoreData,
                 allComments, requests, uniqueComments, deduplicatedComments,
                 userStatsMap, userStats, tasks, client, videoId, earlier, clock,
                 analyzedComments, aggregated, userComments,
                 validByFindIndex, validByMap, classifier,
                 isInitializing, initializationError, callers,
                 inputComments, outcomes, analysis, page, home,
                 inFlight>>

ToxicityFetch == \E v \in 1..Len(VideosTable) : ToxicityFetchPage(v)

ToxicityFetchFails == \E v \in 1..Len(VideosTable) : ToxicityFetchError(v)

\* ------------------------------------------------- UserAnalysis component
\* user.user_id || user.author_name
ClientUserKey(user) == OrElse(user.user_id, user.author_name)

\* allUsers.filter((user, index, array) => array.findIndex(same key) === index)
FirstByUserKey(users) ==
  SelectSeq([i \in 1..Len(users) |-> [at |-> i, user |-> users[i]]],
            LAMBDA e : \A j \in 1..(e.at - 1) :
                         ClientUserKey(users[j]) # ClientUserKey(e.user))

\* allUsers of processUserData: the most_active list when the data came
\* preloaded and the three lists have one length, else the three lists
\* concatenated and deduplicated by user key
AllUsersOf(data, preloaded) ==
  IF /\ preloaded
     /\ Len(data.most_active) = Len(data.most_toxic)
     /\ Len(data.most_active) = Len(data.most_liked)
  THEN data.most_active
  ELSE LET combined == data.most_active \o data.most_toxic \o data.most_liked
           kept == FirstByUserKey(combined)
       IN [i \in 1..Len(kept) |-> kept[i].user]

\* filterUserData
FilterUserData(allUsers, m) ==
  LET filteredUsers == SelectSeq(allUsers, LAMBDA user : user.comment_count >= m)
  IN [most_active |-> Slice(StableSort(filteredUsers, ByCommentCount), TopK),
      most_toxic |-> Slice(StableSort(filteredUsers, ByAverageToxicity), TopK),
      most_liked |-> Slice(StableSort(filteredUsers, ByTotalLikes), TopK),
      total_users |-> Len(filteredUsers),
      min_comments_threshold |-> m]

\* the request /users?min_comments=1&get_all=true has been answered
AllModeAnswered ==
  /\ handler = "users"
  /\ pc = "done"
  /\ getAllUsers
  /\ minComments = 1

\* processUserData on the answer, handed in preloaded by the page or fetched
\* by the component itself
ClientProcessUserData ==
  /\ AllModeAnswered
  /\ response.success
  /\ \E preloaded \in BOOLEAN :
       LET allUsers == AllUsersOf(response.data, preloaded)
       IN client' = [client EXCEPT !.loaded = TRUE,
                                   !.error = FALSE,
                                   !.all_users = allUsers,
                                   !.userData = FilterUserData(allUsers, client.minComments)]
  /\ UNCHANGED <<store, handler, pc, minComments, getAllUsers, offset, hasMoreData,
                 allComments, requests, uniqueComments, deduplicatedComments,
                 userStatsMap, userStats, response, tasks, videoId, earlier, clock,
                 analyzedComments, aggregated, userComments,
                 validByFindIndex, validByMap, classifier,
                 isInitializing, initializationError, callers,
                 inputComments, outcomes, analysis, page, home,
                 inFlight>>

\* if (!response.ok) throw ...: setError
ClientProcessError ==
  /\ AllModeAnswered
  /\ ~response.success
  /\ client' = [client EXCEPT !.error = TRUE]
  /\ UNCHANGED <<store, handler, pc, minComments, getAllUsers, offset, hasMoreData,
                 allComments, requests, uniqueComments, deduplicatedComments,
                 userStatsMap, userStats, response, tasks, videoId, earlier, clock,
                 analyzedComments, aggregated, userComments,
                 validByFindIndex, validByMap, classifier,
                 isInitializing, initializationError, callers,
                 inputComments, outcomes, analysis, page, home,
                 inFlight>>

\* setMinComments: the effect schedules a filter with the new threshold
ClientSetMinComments ==
  /\ client.loaded
  /\ Len(client.pending) < MaxPending
  /\ \E m \in 1..MaxMinComments :
       /\ m # client.minComments
       /\ client' = [client EXCEPT !.minComments = m, !.pending = Append(@, m)]
  /\ UNCHANGED <<store, handler, pc, minComments, getAllUsers, offset, hasMoreData,
                 allComments, requests, uniqueComments, deduplicatedComments,
                 userStatsMap, userStats, response, tasks, videoId, earlier, clock,
                 analyzedComments, aggregated, userComments,
                 validByFindIndex, validByMap, classifier,
                 isInitializing, initializationError, callers,
                 inputComments, outcomes, analysis, page, home,
                 inFlight>>

\* the timeout fires: setUserData(filterUserData(rawUserData.all_users, minComments))
ClientFilter ==
  /\ client.pending # <<>>
  /\ client' = [client EXCEPT !.userData = FilterUserData(client.all_users,
                                                          Head(client.pending)),
                              !.pending = Tail(@)]
  /\ UNCHANGED <<store, handler, pc, minComments, getAllUsers, offset, hasMoreData,
                 allComments, requests, uniqueComments, deduplicatedComments,
                 userStatsMap, userStats, response, tasks, videoId, earlier, clock,
                 analyzedComments, aggregated, userComments,
                 validByFindIndex, validByMap, classifier,
                 isInitializing, initializationError, callers,
                 inputComments, outcomes, analysis, page, home,
                 inFlight>>

\* ------------------------------------------------------- toxicity analyzer
\* videoStats after analyzedComments.forEach: one entry per videoId, in the
\* order of first occurrence
RECURSIVE VideoStats(_, _)
VideoStats(rest, videoStats) ==
  IF rest = <<>> THEN videoStats
  ELSE LET comment == Head(rest)
           i == KeyIndex(videoStats, comment.videoId)
       IN VideoStats(Tail(rest),
            IF i = 0
            THEN Append(videoStats, [key |-> comment.videoId,
                                     totalScore |-> comment.toxicityScore,
                                     count |-> 1])
            ELSE [videoStats EXCEPT ![i].totalScore = @ + comment.toxicityScore,
                                    ![i].count = @ + 1])

\* c.toxicityScore > 0.5 of the toxic_comment_pct filter, with the threshold
\* itself counted as toxic
ToxicAtLeastHalf(c) == c.toxicityScore >= 50

\* c.toxicityScore > 0.5
Toxic(c) == c.toxicityScore > 50

\* Array.from(videoStats.entries()).map(...)
AggregateResults(comments) ==
  LET videoStats == VideoStats(comments, <<>>)
  IN [v \in 1..Len(videoStats) |->
        LET stats == videoStats[v]
            toxic == SelectSeq(comments,
                               LAMBDA c : c.videoId = stats.key /\ Toxic(c))
        IN [videoId |-> stats.key,
            toxicity_avg |-> Quotient(stats.totalScore, stats.count),
            toxic_comment_pct |-> Quotient(Len(toxic) * 100, stats.count),
            comments_analyzed |-> stats.count]]

\* a call of aggregateResults returns
Aggregate ==
  /\ aggregated = <<>>
  /\ aggregated' = <<AggregateResults(analyzedComments)>>
  /\ UNCHANGED routeVars
  /\ UNCHANGED analyzeVars
  /\ UNCHANGED homeVars
  /\ UNCHANGED userInsightVars
  /\ UNCHANGED classifierVars
  /\ UNCHANGED analyzedComments

\* -------------------------------------------------- user insights handlers
\* comment.comments_data is truthy: anything but null (an empty array is truthy)
UserInsightsHasData(comment) == comment.comments_data.shape # "null"

\* array.findIndex(c => c.comments_data && key(c) === key); 0 stands for -1
FindIndexOfKey(array, key) ==
  LET hits == {j \in 1..Len(array) :
                 UserInsightsHasData(array[j]) /\ DedupKey(array[j]) = key}
  IN IF hits = {} THEN 0 ELSE CHOOSE j \in hits : \A k \in hits : j <= k

\* allComments.filter((comment, index, array) => comment.comments_data &&
\*   array.findIndex(...) === index), then validComments = deduplicatedComments
FindIndexDedup(array) ==
  LET kept == {i \in 1..Len(array) :
                 /\ UserInsightsHasData(array[i])
                 /\ FindIndexOfKey(array, DedupKey(array[i])) = i}
      RECURSIVE Pick(_)
      Pick(i) == IF i > Len(array) THEN <<>>
                 ELSE (IF i \in kept THEN <<array[i]>> ELSE <<>>) \o Pick(i + 1)
  IN Pick(1)

\* the Map-based loop over allComments, then
\* validComments = deduplicatedComments.filter(comment => comment.comments_data)
MapDedupValid(array) ==
  SelectSeq(DedupMap(array).deduplicatedComments, UserInsightsHasData)

\* the findIndex-based handler deduplicates the rows it fetched
UserInsightsFindIndex ==
  /\ validByFindIndex = <<>>
  /\ validByFindIndex' = <<FindIndexDedup(userComments)>>
  /\ UNCHANGED routeVars
  /\ UNCHANGED analyzeVars
  /\ UNCHANGED homeVars
  /\ UNCHANGED aggregateVars
  /\ UNCHANGED classifierVars
  /\ UNCHANGED <<userComments, validByMap>>

\* the Map-based handler deduplicates the rows it fetched
UserInsightsMap ==
  /\ validByMap = <<>>
  /\ validByMap' = <<MapDedupValid(userComments)>>
  /\ UNCHANGED routeVars
  /\ UNCHANGED analyzeVars
  /\ UNCHANGED homeVars
  /\ UNCHANGED aggregateVars
  /\ UNCHANGED classifierVars
  /\ UNCHANGED <<userComments, validByFindIndex>>

\* ------------------------------------------------------ initializeClassifier
Settled(c, position, v) == [callers EXCEPT ![c] = [pc |-> position, value |-> v]]

\* initializeClassifier without `isInitializing = true`
InitializeClassifierWithoutFlag(c) ==
  /\ callers[c].pc = "idle"
  /\ IF classifier # NULL
     THEN /\ callers' = Settled(c, "returned", classifier)
          /\ UNCHANGED <<classifier, isInitializing, initializationError>>
     ELSE IF isInitializing
     THEN /\ callers' = Settled(c, "waiting", NoValue)
          /\ UNCHANGED <<classifier, isInitializing, initializationError>>
     ELSE /\ initializationError' = NULL
          /\ callers' = Settled(c, "loading", NoValue)
          /\ UNCHANGED <<classifier, isInitializing>>
  /\ UNCHANGED routeVars
  /\ UNCHANGED analyzeVars
  /\ UNCHANGED homeVars
  /\ UNCHANGED aggregateVars
  /\ UNCHANGED userInsightVars

\* a call of initializeClassifier, up to its first await:
\* if (classifier) return classifier; if (isInitializing) { wait } else
\* { isInitializing = true; initializationError = null; await pipeline(...) }
InitializeClassifier(c) ==
  /\ callers[c].pc = "idle"
  /\ IF classifier # NULL
     THEN /\ callers' = Settled(c, "returned", classifier)
          /\ UNCHANGED <<classifier, isInitializing, initializationError>>
     ELSE IF isInitializing
     THEN /\ callers' = Settled(c, "waiting", NoValue)
          /\ UNCHANGED <<classifier, isInitializing, initializationError>>
     ELSE /\ isInitializing' = TRUE
          /\ initializationError' = NULL
          /\ callers' = Settled(c, "loading", NoValue)
          /\ UNCHANGED classifier
  /\ UNCHANGED routeVars
  /\ UNCHANGED analyzeVars
  /\ UNCHANGED homeVars
  /\ UNCHANGED aggregateVars
  /\ UNCHANGED userInsightVars

\* pipeline(...) resolves: classifier = the pipeline; return classifier;
\* finally { isInitializing = false }
PipelineResolves(c) ==
  /\ callers[c].pc = "loading"
  /\ classifier' = Pipeline
  /\ isInitializing' = FALSE
  /\ callers' = Settled(c, "returned", Pipeline)
  /\ UNCHANGED initializationError
  /\ UNCHANGED routeVars
  /\ UNCHANGED analyzeVars
  /\ UNCHANGED homeVars
  /\ UNCHANGED aggregateVars
  /\ UNCHANGED userInsightVars

\* pipeline(...) rejects: initializationError = error; throw error;
\* finally { isInitializing = false }
PipelineRejects(c) ==
  /\ callers[c].pc = "loading"
  /\ initializationError' = LoadError
  /\ isInitializing' = FALSE
  /\ callers' = Settled(c, "thrown", LoadError)
  /\ UNCHANGED classifier
  /\ UNCHANGED routeVars
  /\ UNCHANGED analyzeVars
  /\ UNCHANGED homeVars
  /\ UNCHANGED aggregateVars
  /\ UNCHANGED userInsightVars

\* the 100 ms timer of a waiting caller fires: while (isInitializing) wait
\* again; if (initializationError) throw initializationError; return classifier
TimerFires(c) ==
  /\ callers[c].pc = "waiting"
  /\ IF isInitializing
     THEN UNCHANGED callers
     ELSE IF initializationError # NULL
     THEN callers' = Settled(c, "thrown", initializationError)
     ELSE callers' = Settled(c, "returned", classifier)
  /\ UNCHANGED <<classifier, isInitializing, initializationError>>
  /\ UNCHANGED routeVars
  /\ UNCHANGED analyzeVars
  /\ UNCHANGED homeVars
  /\ UNCHANGED aggregateVars
  /\ UNCHANGED userInsightVars

\* the caller that got its answer calls initializeClassifier another time
CallAgain(c) ==
  /\ callers[c].pc \in {"returned", "thrown"}
  /\ callers' = Settled(c, "idle", NoValue)
  /\ UNCHANGED <<classifier, isInitializing, initializationError>>
  /\ UNCHANGED routeVars
  /\ UNCHANGED analyzeVars
  /\ UNCHANGED homeVars
  /\ UNCHANGED aggregateVars
  /\ UNCHANGED userInsightVars

\* ---------------------------------------------------------- analyzeComments
Pending == [kind |-> "pending", label |-> "", score |-> 0]
Threw == [kind |-> "threw", label |-> "", score |-> 0]
Answer(label, score) == [kind |-> "answer", label |-> label, score |-> score]

\* what classifier(comment, {topk: 1, max_length: 512}) can do: answer with a
\* label and a score, or throw
ClassifierOutcomes ==
  {Threw} \cup {Answer(l, s) : l \in {"NEGATIVE", "POSITIVE"}, s \in {90}}

\* return 0.5 of the catch blocks
NeutralScore == 50

\* analyzeComment: isNegative ? result[0].score : 1 - result[0].score, and
\* 0.5 when the classification throws
AnalyzeComment(outcome) ==
  IF outcome.kind = "threw" THEN NeutralScore
  ELSE IF outcome.label = "NEGATIVE" THEN outcome.score ELSE 100 - outcome.score

\* results that leave out the comments whose classification threw
ScoredResultsOfAnswered(comments, answers) ==
  LET all == [i \in 1..Len(comments) |->
                [text |-> comments[i].text, videoId |-> comments[i].videoId,
                 toxicityScore |-> AnalyzeComment(answers[i]),
                 kind |-> answers[i].kind]]
      kept == SelectSeq(all, LAMBDA r : r.kind # "threw")
  IN [i \in 1..Len(kept) |->
        [text |-> kept[i].text, videoId |-> kept[i].videoId,
         toxicityScore |-> kept[i].toxicityScore]]

\* Promise.all(comments.map(async comment =>
\*   ({...comment, toxicityScore: await analyzeComment(comment.text)})))
ScoredResults(comments, answers) ==
  [i \in 1..Len(comments) |->
     [text |-> comments[i].text, videoId |-> comments[i].videoId,
      toxicityScore |-> AnalyzeComment(answers[i])]]

\* analyzeComments is called: await initializeClassifier(), then one
\* analyzeComment per comment is started
AnalyzeCommentsCall ==
  /\ analysis.pc = "idle"
  /\ ~isInitializing
  /\ IF classifier # NULL
     THEN /\ analysis' = [analysis EXCEPT !.pc = "classifying"]
          /\ outcomes' = [i \in 1..Len(inputComments) |-> Pending]
          /\ UNCHANGED <<isInitializing, initializationError>>
     ELSE /\ analysis' = [analysis EXCEPT !.pc = "initializing"]
          /\ isInitializing' = TRUE
          /\ initializationError' = NULL
          /\ UNCHANGED outcomes
  /\ UNCHANGED <<classifier, callers, inputComments>>
  /\ UNCHANGED routeVars
  /\ UNCHANGED aggregateVars
  /\ UNCHANGED userInsightVars
  /\ UNCHANGED homeVars

\* the pipeline load of analyzeComments resolves
AnalyzeInitResolves ==
  /\ analysis.pc = "initializing"
  /\ classifier' = Pipeline
  /\ isInitializing' = FALSE
  /\ analysis' = [analysis EXCEPT !.pc = "classifying"]
  /\ outcomes' = [i \in 1..Len(inputComments) |-> Pending]
  /\ UNCHANGED <<initializationError, callers, inputComments>>
  /\ UNCHANGED routeVars
  /\ UNCHANGED aggregateVars
  /\ UNCHANGED userInsightVars
  /\ UNCHANGED homeVars

\* the pipeline load rejects: throw new Error('Failed to analyze comments')
AnalyzeInitRejects ==
  /\ analysis.pc = "initializing"
  /\ initializationError' = LoadError
  /\ isInitializing' = FALSE
  /\ analysis' = [analysis EXCEPT !.pc = "thrown"]
  /\ UNCHANGED <<classifier, callers, inputComments, outcomes>>
  /\ UNCHANGED routeVars
  /\ UNCHANGED aggregateVars
  /\ UNCHANGED userInsightVars
  /\ UNCHANGED homeVars

\* the classification of one comment settles, in any order
Classify ==
  /\ analysis.pc = "classifying"
  /\ \E i \in 1..Len(inputComments), o \in ClassifierOutcomes :
       /\ outcomes[i] = Pending
       /\ outcomes' = [outcomes EXCEPT ![i] = o]
  /\ UNCHANGED <<inputComments, analysis>>
  /\ UNCHANGED classifierVars
  /\ UNCHANGED routeVars
  /\ UNCHANGED aggregateVars
  /\ UNCHANGED userInsightVars
  /\ UNCHANGED homeVars

\* Promise.all resolves once every analyzeComment has: return results
AnalyzeCommentsReturn ==
  /\ analysis.pc = "classifying"
  /\ \A i \in 1..Len(inputComments) : outcomes[i] # Pending
  /\ analysis' = [pc |-> "returned",
                  results |-> ScoredResults(inputComments, outcomes)]
  /\ UNCHANGED <<inputComments, outcomes>>
  /\ UNCHANGED classifierVars
  /\ UNCHANGED routeVars
  /\ UNCHANGED aggregateVars
  /\ UNCHANGED userInsightVars
  /\ UNCHANGED homeVars

\* ---------------------------------------------------------------- Home page
AnalysisIds == {<<"a", "1">>}
ChannelIds == {<<"c", "1">>, <<"c", "2">>}
Loaded == <<"data">>

\* const shouldShowInput = !isAnalyzing && !channelId && !isTransitioning && !channelData
ShouldShowInput(h) ==
  ~h.isAnalyzing /\ h.channelId = NULL /\ ~h.isTransitioning /\ h.channelData = NULL

\* const shouldShowProgress = (isAnalyzing || isTransitioning) && analysisId
ShouldShowProgress(h) ==
  (h.isAnalyzing \/ h.isTransitioning) /\ h.analysisId # NULL

\* const shouldShowResults = channelData && !isAnalyzing && !isTransitioning && !isDataLoading
ShouldShowResults(h) ==
  h.channelData # NULL /\ ~h.isAnalyzing /\ ~h.isTransitioning /\ ~h.isDataLoading

\* the views the JSX renders
ViewsRendered(h) ==
  {v \in {"input", "progress", "results"} :
     \/ v = "input" /\ ShouldShowInput(h)
     \/ v = "progress" /\ ShouldShowProgress(h)
     \/ v = "results" /\ ShouldShowResults(h)}

\* handleAnalysisStart, called by the ChannelInput of the input view, up to
\* its await fetch('/api/analyze-channel')
HandleAnalysisStart ==
  /\ ShouldShowInput(home)
  /\ "start" \notin inFlight
  /\ home' = [HomeInitial EXCEPT !.isAnalyzing = TRUE]
  /\ inFlight' = inFlight \cup {"start"}
  /\ UNCHANGED page
  /\ UNCHANGED routeVars
  /\ UNCHANGED aggregateVars
  /\ UNCHANGED userInsightVars
  /\ UNCHANGED classifierVars
  /\ UNCHANGED analyzeVars

\* the POST answers: setAnalysisId, setChannelId on success, otherwise
\* setError and setIsAnalyzing(false)
StartSettles ==
  /\ "start" \in inFlight
  /\ \E ok \in BOOLEAN, a \in AnalysisIds, ch \in ChannelIds :
       home' = IF ok
               THEN [home EXCEPT !.analysisId = a, !.channelId = ch]
               ELSE [home EXCEPT !.error = <<"Failed to start analysis">>,
                                 !.isAnalyzing = FALSE]
  /\ inFlight' = inFlight \ {"start"}
  /\ UNCHANGED page
  /\ UNCHANGED routeVars
  /\ UNCHANGED aggregateVars
  /\ UNCHANGED userInsightVars
  /\ UNCHANGED classifierVars
  /\ UNCHANGED analyzeVars

\* handleAnalysisComplete, called by the AnalysisProgress of the progress
\* view; the effect on [channelId, isTransitioning] then starts the fetches
HandleAnalysisComplete ==
  /\ ShouldShowProgress(home)
  /\ home' = [home EXCEPT !.isTransitioning = TRUE, !.isAnalyzing = FALSE,
                          !.isDataLoading = TRUE]
  /\ inFlight' = IF ~home.isTransitioning /\ home.channelId # NULL
                 THEN inFlight \cup {"fetch"} ELSE inFlight
  /\ UNCHANGED page
  /\ UNCHANGED routeVars
  /\ UNCHANGED aggregateVars
  /\ UNCHANGED userInsightVars
  /\ UNCHANGED classifierVars
  /\ UNCHANGED analyzeVars

\* part_003: Promise.allSettled of the three fetches settles; each result is
\* stored when it succeeded, the 500 ms timer is set and the users fetch starts
FetchSettles ==
  /\ page = "part_003"
  /\ "fetch" \in inFlight
  /\ \E channelOk \in BOOLEAN, toxicityOk \in BOOLEAN, videosOk \in BOOLEAN :
       home' = [home EXCEPT
                  !.channelData = IF channelOk THEN Loaded ELSE @,
                  !.toxicityData = IF toxicityOk THEN Loaded ELSE @,
                  !.videos = IF videosOk THEN Loaded ELSE @]
  /\ inFlight' = (inFlight \ {"fetch"}) \cup {"timer", "users"}
  /\ UNCHANGED page
  /\ UNCHANGED routeVars
  /\ UNCHANGED aggregateVars
  /\ UNCHANGED userInsightVars
  /\ UNCHANGED classifierVars
  /\ UNCHANGED analyzeVars

\* part_003: the users fetch settles: setUserData(userResult.data) or
\* setUserData(null)
UsersSettles ==
  /\ page = "part_003"
  /\ "users" \in inFlight
  /\ \E ok \in BOOLEAN :
       home' = [home EXCEPT !.userData = IF ok THEN Loaded ELSE NULL]
  /\ inFlight' = inFlight \ {"users"}
  /\ UNCHANGED page
  /\ UNCHANGED routeVars
  /\ UNCHANGED aggregateVars
  /\ UNCHANGED userInsightVars
  /\ UNCHANGED classifierVars
  /\ UNCHANGED analyzeVars

\* part_004: Promise.all of the three fetches settles: all three results are
\* stored and the 1000 ms timer is set, or one failed: setError,
\* setIsTransitioning(false), setIsDataLoading(false)
FetchAllSettles ==
  /\ page = "part_004"
  /\ "fetch" \in inFlight
  /\ \E ok \in BOOLEAN :
       IF ok
       THEN /\ home' = [home EXCEPT !.channelData = Loaded,
                                    !.toxicityData = Loaded, !.videos = Loaded]
            /\ inFlight' = (inFlight \ {"fetch"}) \cup {"timer"}
       ELSE /\ home' = [home EXCEPT
                          !.error = <<"Failed to load channel data. Please try again.">>,
                          !.isTransitioning = FALSE, !.isDataLoading = FALSE]
            /\ inFlight' = inFlight \ {"fetch"}
  /\ UNCHANGED page
  /\ UNCHANGED routeVars
  /\ UNCHANGED aggregateVars
  /\ UNCHANGED userInsightVars
  /\ UNCHANGED classifierVars
  /\ UNCHANGED analyzeVars

\* setTimeout(() => { setIsTransitioning(false); setIsDataLoading(false) })
HomeTimerFires ==
  /\ "timer" \in inFlight
  /\ home' = [home EXCEPT !.isTransitioning = FALSE, !.isDataLoading = FALSE]
  /\ inFlight' = inFlight \ {"timer"}
  /\ UNCHANGED page
  /\ UNCHANGED routeVars
  /\ UNCHANGED aggregateVars
  /\ UNCHANGED userInsightVars
  /\ UNCHANGED classifierVars
  /\ UNCHANGED analyzeVars

\* handleStartNew, called by the New Analysis button of the results view
HandleStartNew ==
  /\ ShouldShowResults(home)
  /\ home' = HomeInitial
  /\ UNCHANGED <<page, inFlight>>
  /\ UNCHANGED routeVars
  /\ UNCHANGED aggregateVars
  /\ UNCHANGED userInsightVars
  /\ UNCHANGED classifierVars
  /\ UNCHANGED analyzeVars

\* ---------------------------------------------------------- specifications
V1 == <<"v", "1">>
V2 == <<"v", "2">>
U1 == <<"u", "1">>
U2 == <<"u", "2">>

\* Rows of the aggregation specification: texts that differ only by case and
\* surrounding blanks and one that differs, an author known by id or only by
\* a name, rows with and without a score; the same text under another video;
\* a row with neither author id nor name; a second author.
AggBodies ==
  RowBodies({<<"a">>, <<" ", "A">>}, {V1}, {U1, NULL}, {U1}, {1}, {1},
            {CdObject(90), CdObjectNullScore})
  \cup RowBodies({<<"b">>}, {V1}, {U1}, {U1}, {1}, {1}, {CdObject(90)})
  \cup RowBodies({<<"a">>}, {V2}, {U1}, {U1}, {1}, {1}, {CdObject(90)})
  \cup RowBodies({<<"a">>}, {V1}, {NULL}, {NULL}, {1}, {1}, {CdObject(90)})
  \cup RowBodies({<<"b">>}, {V1}, {U2}, {<<"n">>}, {3}, {2}, {CdArray(10)})

Init == store \in Tables(AggBodies, MaxStore) /\ Idle

Next ==
  \/ UsersStart
  \/ UsersFetchPage
  \/ UsersFetchError
  \/ UsersRespond
  \/ SummaryStart
  \/ SummaryLookupError
  \/ SummaryFetchPage
  \/ SummaryFetchError
  \/ SummaryRespond
  \/ AnalyzedStart
  \/ AnalyzedFetchPage
  \/ AnalyzedFetchError
  \/ AnalyzedRespond
  \/ CompleteStart
  \/ CompleteLookupError
  \/ CompleteFetchPage
  \/ CompleteFetchError
  \/ CompleteRespond

Spec == Init /\ [][Next]_vars

\* Tables long enough for several full pages and a short one
ScanBodies ==
  RowBodies({<<"a">>}, {V1}, {U1}, {U1}, {1}, {1},
            {CdObject(90), CdObjectNullScore})

InitScan == store \in Tables(ScanBodies, MaxRows) /\ Idle

SpecScan == InitScan /\ [][Next]_vars

\* Rows of two videos, at two times, with and without a score, and a scored
\* row whose timestamp is null
ToxicityBodies ==
  RowBodies({<<"a">>}, {V1, V2}, {U1}, {U1}, {1}, {1, 2},
            {CdObject(90), CdObjectNullScore})
  \cup RowBodies({<<"a">>}, {V1, V2}, {U1}, {U1}, {1}, {0}, {CdObject(90)})

InitToxicity == store \in Tables(ToxicityBodies, MaxStore) /\ Idle

NextToxicity ==
  \/ ToxicityStart
  \/ ToxicityVideosError
  \/ ToxicitySpawn
  \/ ToxicityFetch
  \/ ToxicityFetchFails
  \/ ToxicityRespond

SpecToxicity == InitToxicity /\ [][NextToxicity]_vars

\* Rows of two authors and of an author without id or name, with two texts
\* and two scores
RankBodies ==
  RowBodies({<<"a">>, <<"b">>}, {V1}, {U1, U2}, {<<"n">>}, {1}, {1},
            {CdObject(90), CdObject(10)})
  \cup RowBodies({<<"a">>}, {V1}, {NULL}, {NULL}, {1}, {1}, {CdObject(90)})

InitRank == store \in Tables(RankBodies, MaxStore) /\ Idle

NextRank ==
  \/ UsersStart
  \/ UsersFetchPage
  \/ UsersFetchError
  \/ UsersRespond
  \/ ClientProcessUserData
  \/ ClientProcessError
  \/ ClientSetMinComments
  \/ ClientFilter

SpecRank == InitRank /\ [][NextRank]_vars

\* Tables of up to MaxAuthors authors, more than a Top-K list holds: author j
\* wrote either one comment scored 90 or two comments scored 10, in turn for
\* the first authors and in every combination for the last MaxFreeAuthors
AuthorRows(j, two) ==
  LET body(text, sc) ==
        [text |-> text, video_id |-> V1, user_id |-> <<"u", IdStr[j]>>,
         author_name |-> <<"n">>, like_count |-> 1, timestamp |-> 1,
         comments_data |-> CdObject(sc)]
  IN IF two THEN <<body(<<"a">>, 10), body(<<"b">>, 10)>>
     ELSE <<body(<<"a">>, 90)>>

AuthorTables(n) ==
  {LET rows == Flatten([j \in 1..Len(kinds) |-> AuthorRows(j, kinds[j])])
   IN [i \in 1..Len(rows) |-> WithId(rows[i], i)] :
     kinds \in {k \in SeqUpTo(BOOLEAN, n) :
                 \A j \in 1..Len(k) : j <= n - MaxFreeAuthors => k[j] = (j % 2 = 0)}}

InitTopK == store \in AuthorTables(MaxAuthors) /\ Idle

NextTopK ==
  \/ UsersStart
  \/ UsersFetchPage
  \/ UsersFetchError
  \/ UsersRespond
  \/ CompleteStart
  \/ CompleteLookupError
  \/ CompleteFetchPage
  \/ CompleteFetchError
  \/ CompleteRespond

SpecTopK == InitTopK /\ [][NextTopK]_vars

\* Rows of the views over raw comments: scores 90 and 0, rows without
\* annotation or without score, authors with an id and without id and name,
\* a row of the other video
ViewBodies ==
  RowBodies({<<"a">>, <<"b">>}, {V1}, {U1}, {U1}, {2}, {1},
            {CdObject(90), CdObject(0)})
  \cup RowBodies({<<"a">>, <<"b">>}, {V1}, {NULL}, {NULL}, {1}, {2}, {CdObject(90)})
  \cup RowBodies({<<"a">>}, {V1}, {U2}, {<<"n">>}, {3}, {1},
                 {CdNull, CdObjectNullScore})
  \cup RowBodies({<<"a">>}, {V2}, {U1}, {U1}, {1}, {1}, {CdObject(90)})

InitViews == store \in Tables(ViewBodies, MaxStore) /\ Idle

NextViews ==
  \/ UsersStart
  \/ UsersFetchPage
  \/ UsersFetchError
  \/ UsersRespond
  \/ AnalyticsStart
  \/ AnalyticsError
  \/ AnalyticsRespond
  \/ InsightsStart
  \/ InsightsLookupError
  \/ InsightsFetchPage
  \/ InsightsFetchError
  \/ InsightsRespond

SpecViews == InitViews /\ [][NextViews]_vars

\* Scored comments of two videos, with scores at, next to and away from 0.5
AnalyzedBodies == [videoId : {V1, V2}, toxicityScore : {0, 50, 51, 100}]

InitAggregate ==
  /\ store = <<>>
  /\ RoutesIdle
  /\ UserInsightsIdle
  /\ ClassifierIdle
  /\ AnalyzeIdle
  /\ HomeIdle
  /\ analyzedComments \in SeqUpTo(AnalyzedBodies, MaxComments)
  /\ aggregated = <<>>

NextAggregate == Aggregate

SpecAggregate == InitAggregate /\ [][NextAggregate]_vars

\* Rows with and without text, author id and display name: the text missing,
\* empty or 'a', of one video, with two scores
MalformedBodies ==
  RowBodies({NULL, <<>>, <<"a">>}, {V1}, {U1, NULL}, {<<"n">>, NULL}, {1}, {1},
            {CdObject(90), CdObject(10)})

InitMalformed == store \in Tables(MalformedBodies, MaxStore) /\ Idle

NextMalformed ==
  \/ UsersStart
  \/ UsersFetchPage
  \/ UsersFetchError
  \/ UsersRespond

SpecMalformed == InitMalformed /\ [][NextMalformed]_vars

\* Rows of one author, with and without comments_data, with the text in two
\* spellings of one key and a second text
UserInsightBodies ==
  RowBodies({<<"a">>, <<"A">>, <<"b">>}, {V1}, {U1}, {U1}, {1}, {1},
            {CdNull, CdObject(90)})

InitUserInsights ==
  /\ store = <<>>
  /\ RoutesIdle
  /\ AggregateIdle
  /\ ClassifierIdle
  /\ AnalyzeIdle
  /\ HomeIdle
  /\ userComments \in Tables(UserInsightBodies, MaxStore)
  /\ validByFindIndex = <<>>
  /\ validByMap = <<>>

NextUserInsights ==
  \/ UserInsightsFindIndex
  \/ UserInsightsMap

SpecUserInsights == InitUserInsights /\ [][NextUserInsights]_vars

InitClassifier ==
  /\ store = <<>>
  /\ Idle

NextClassifier ==
  \/ \E c \in Callers : InitializeClassifier(c)
  \/ \E c \in Callers : PipelineResolves(c)
  \/ \E c \in Callers : PipelineRejects(c)
  \/ \E c \in Callers : TimerFires(c)
  \/ \E c \in Callers : CallAgain(c)

SpecClassifier == InitClassifier /\ [][NextClassifier]_vars

\* setTimeout(resolve, 100) fires for every caller that waits
FairClassifier ==
  SpecClassifier /\ \A c \in Callers : WF_vars(TimerFires(c))

CommentBodies == [text : {<<"a">>, <<"b">>}, videoId : {V1, V2}]

\* a call of analyzeComments before the classifier was loaded, and after a
\* first caller of initializeClassifier loaded it
InitAnalyze ==
  /\ store = <<>>
  /\ RoutesIdle
  /\ AggregateIdle
  /\ UserInsightsIdle
  /\ HomeIdle
  /\ \/ ClassifierIdle
     \/ /\ classifier = Pipeline
        /\ isInitializing = FALSE
        /\ initializationError = NULL
        /\ callers = [c \in Callers |->
                        IF c = "c1" THEN [pc |-> "returned", value |-> Pipeline]
                        ELSE [pc |-> "idle", value |-> NoValue]]
  /\ inputComments \in SeqUpTo(CommentBodies, MaxComments)
  /\ outcomes = <<>>
  /\ analysis = NotCalled

NextAnalyze ==
  \/ AnalyzeCommentsCall
  \/ AnalyzeInitResolves
  \/ AnalyzeInitRejects
  \/ Classify
  \/ AnalyzeCommentsReturn

SpecAnalyze == InitAnalyze /\ [][NextAnalyze]_vars

InitHome ==
  /\ store = <<>>
  /\ RoutesIdle
  /\ AggregateIdle
  /\ UserInsightsIdle
  /\ ClassifierIdle
  /\ AnalyzeIdle
  /\ page \in {"part_003", "part_004"}
  /\ home = HomeInitial
  /\ inFlight = {}

NextHome ==
  \/ HandleAnalysisStart
  \/ StartSettles
  \/ HandleAnalysisComplete
  \/ FetchSettles
  \/ UsersSettles
  \/ FetchAllSettles
  \/ HomeTimerFires
  \/ HandleStartNew

SpecHome == InitHome /\ [][NextHome]_vars

\* ------------------------------------------------------------------ claims
\* the request was served by handler h and answered with success: true
Succeeded(h) == handler = h /\ pc = "done" /\ response.success

\* the scan loop of the request ran to its end
ScanCompleted == pc = "done" /\ ~hasMoreData

\* a record that carries a toxicity score
ScoreBearing(comment) ==
  /\ comment.comments_data.shape \in {"array", "object"}
  /\ comment.comments_data.present

NormalizedText(comment) == ToLowerCase(Trim(OrElse(comment.text, <<>>)))

\* equal DedupKey: same normalized text, same video, same author id or,
\* the id absent, author name
SameComment(a, b) ==
  /\ NormalizedText(a) = NormalizedText(b)
  /\ a.video_id = b.video_id
  /\ OrElse(a.user_id, a.author_name) = OrElse(b.user_id, b.author_name)

\* positions of the records that are the first with their DedupKey
FirstSeen(comments) ==
  {i \in 1..Len(comments) :
     \A j \in 1..(i - 1) : ~SameComment(comments[j], comments[i])}

HasDuplicate(comments) == FirstSeen(comments) # 1..Len(comments)

AllScoreBearing(comments) ==
  \A i \in 1..Len(comments) : ScoreBearing(comments[i])

ScoreBearingAt(comments) ==
  {i \in 1..Len(comments) : ScoreBearing(comments[i])}

RECURSIVE SumScoresAt(_, _)
SumScoresAt(comments, at) ==
  IF at = {} THEN 0
  ELSE LET i == CHOOSE i \in at : TRUE
       IN comments[i].comments_data.toxicity_score
          + SumScoresAt(comments, at \ {i})

\* grouping key of a comment: author id, else display name, else a per-record placeholder
AuthorKeyOf(comment) ==
  OrElse(OrElse(comment.user_id, comment.author_name),
         <<"Anonymous_">> \o comment.id)

ChannelSummaryOf(resp) ==
  IF handler = "complete" THEN resp.data.channel ELSE resp.data

\* C1: the deduplicated list holds exactly one record for each DedupKey of
\* the fetched comments, namely the first one in scan order, and the
\* retained records keep their relative input order.
C1_DedupKeepsFirstSeen ==
  (Succeeded("users") /\ Len(allComments) > 0) =>
    LET first == FirstSeen(allComments)
    IN /\ Len(deduplicatedComments) = Cardinality(first)
       /\ \A k \in 1..Len(deduplicatedComments) :
            \E i \in first :
              /\ deduplicatedComments[k] = allComments[i]
              /\ Cardinality({j \in first : j < i}) = k - 1

\* C1 witness: three rows fetched, the third a duplicate of the first that
\* differs from it in case and blanks; two records retained.
C1_Witness ==
  /\ Succeeded("users")
  /\ Len(allComments) = 3
  /\ Len(deduplicatedComments) = 2
  /\ SameComment(allComments[1], allComments[3])
  /\ allComments[1].text # allComments[3].text

\* C2: the channel summary's comment_count is the size of the deduplicated
\* set, never the raw row count: whenever two fetched rows share a DedupKey,
\* comment_count is strictly smaller than the number of fetched rows.
\* Stated for fetched rows that all carry a score, where the deduplicated
\* set and the deduplicated score-bearing set are the same.
C2_CommentCountIsDeduplicated ==
  \A h \in {"summary", "complete"} :
    (Succeeded(h) /\ ScanCompleted /\ AllScoreBearing(allComments)) =>
      LET count == ChannelSummaryOf(response).comment_count
      IN /\ count = Cardinality(FirstSeen(allComments))
         /\ HasDuplicate(allComments) => count < Len(allComments)

\* C3: a record without a toxicity score contributes to no statistic: no
\* count includes it and no average counts it as a 0.
C3_AbsentScoreNeverCounted ==
  /\ \A h \in {"summary", "analyzed", "complete"} :
       (Succeeded(h) /\ ScanCompleted /\ Len(allComments) > 0) =>
         LET summary == ChannelSummaryOf(response)
             scored == Cardinality(ScoreBearingAt(allComments))
         IN /\ summary.comment_count <= scored
            /\ summary.average_toxicity = Zero
               \/ summary.average_toxicity.den <= scored
  /\ \A h \in {"users", "complete"} :
       (Succeeded(h) /\ ScanCompleted /\ Len(allComments) > 0) =>
         SumSeq([g \in 1..Len(userStats) |-> userStats[g].comment_count])
           <= Cardinality(ScoreBearingAt(allComments))

\* C4: dedup runs before the score filter: every fetched record, scored or
\* not, is entered into the dedup key membership, and the score filter is
\* applied afterwards to the first-seen records.
C4_DedupBeforeScoreFilter ==
  \A h \in {"users", "summary"} :
    (Succeeded(h) /\ ScanCompleted /\ Len(allComments) > 0) =>
      LET counted ==
            IF h = "users"
            THEN SumSeq([g \in 1..Len(userStats) |-> userStats[g].comment_count])
            ELSE response.data.comment_count
      IN /\ \A i \in 1..Len(allComments) :
              DedupKey(allComments[i]) \in uniqueComments
         /\ counted = Cardinality(FirstSeen(allComments)
                                  \cap ScoreBearingAt(allComments))

\* C5: for every author group and every video group, comment_count is the
\* number of deduplicated score-bearing records with that key and
\* average_toxicity is the sum of their scores divided by that count.
\* Stated for fetched rows that all carry a score.
C5_GroupCountAndAverage ==
  \A h \in {"users", "complete"} :
    (Succeeded(h) /\ ScanCompleted /\ Len(allComments) > 0
       /\ AllScoreBearing(allComments)) =>
      LET kept == FirstSeen(allComments) \cap ScoreBearingAt(allComments)
          ofAuthor(key) == {i \in kept : AuthorKeyOf(allComments[i]) = key}
          ofVideo(id) == {i \in kept : allComments[i].video_id = id}
      IN /\ \A i \in kept :
              \E g \in 1..Len(userStatsMap) :
                userStatsMap[g].key = AuthorKeyOf(allComments[i])
         /\ \A g \in 1..Len(userStatsMap) :
              LET members == ofAuthor(userStatsMap[g].key)
              IN /\ userStats[g].comment_count = Cardinality(members)
                 /\ userStats[g].average_toxicity =
                      [num |-> SumScoresAt(allComments, members),
                       den |-> Cardinality(members)]
         /\ h = "complete" =>
              \A v \in 1..Len(response.data.videos) :
                LET members == ofVideo(response.data.videos[v].id)
                IN /\ response.data.videos[v].comment_count = Cardinality(members)
                   /\ response.data.videos[v].average_toxicity =
                        [num |-> SumScoresAt(allComments, members),
                         den |-> Cardinality(members)]

\* handlers that page through the comments table with the scan loop
ScanHandlers == {"users", "summary", "analyzed", "complete"}

\* C6: the scan stops exactly at the first response with fewer than pageSize
\* records: every request but the last was answered with a full page, the
\* loop continues after a full page, and once the loop has ended the last
\* response was a short one.
C6_ScanStopsAtFirstShortPage ==
  (handler \in ScanHandlers) =>
    /\ \A k \in 1..(Len(requests) - 1) :
         ~requests[k].error /\ requests[k].returned = pageSize
    /\ (pc = "scanning" /\ requests # <<>>) =>
         (hasMoreData <=> requests[Len(requests)].returned = pageSize)
    /\ (pc = "scanning" /\ requests = <<>>) => hasMoreData
    /\ ScanCompleted =>
         /\ requests # <<>>
         /\ ~requests[Len(requests)].error
         /\ requests[Len(requests)].returned < pageSize

\* C6 witness: a scan that got a full page, went on, and ended on an empty page
C6_Witness ==
  /\ handler \in ScanHandlers
  /\ ScanCompleted
  /\ Len(requests) = 2
  /\ requests[1].returned = pageSize
  /\ requests[2].returned = 0

\* C7: against an unchanging table of n rows the scan issues floor(n/p)+1
\* page requests at offsets 0, p, 2p, ..., and accumulates the n rows once
\* each in table order.
C7_ScanFetchesEveryRowOnce ==
  (handler \in ScanHandlers /\ ScanCompleted) =>
    /\ Len(requests) = (Len(store) \div pageSize) + 1
    /\ \A k \in 1..Len(requests) : requests[k].offset = (k - 1) * pageSize
    /\ allComments = store

\* C7 witness: responses of 2, 2 and 1 rows: 3 requests, 5 rows
C7_Witness ==
  /\ handler \in ScanHandlers
  /\ ScanCompleted
  /\ [k \in 1..Len(requests) |-> requests[k].returned] = <<2, 2, 1>>
  /\ Len(allComments) = 5

\* C8: if any page request of a scan fails, the request ends in an error:
\* no success response is returned.
C8_PageErrorFailsRequest ==
  (handler \in ScanHandlers /\ pc = "done"
     /\ \E k \in 1..Len(requests) : requests[k].error) =>
    ~response.success

\* C9: when one of the concurrent per-video fetches of a timeline request
\* fails, the request fails: no success response is returned.
C9_FailedFetchFailsTimeline ==
  (handler = "toxicity" /\ pc = "done"
     /\ \E v \in 1..Len(tasks) :
          \E k \in 1..Len(tasks[v].requests) : tasks[v].requests[k].error) =>
    ~response.success

\* the answer of the users route to min_comments = m, without get_all
ServerTopK(m) ==
  IF Len(store) = 0 THEN EmptyRanking(m)
  ELSE RankTopK(FinalizeUsers(UsersFold(DedupMap(store).deduplicatedComments, <<>>)), m)

\* C10: the component's lists, filtered and truncated from the all-mode
\* answer for threshold m, are the server's Top-K lists for min_comments = m,
\* in the same order, with the same total_users.
C10_ClientFilterEqualsServerTopK ==
  (client.loaded /\ client.pending = <<>>) =>
    LET server == ServerTopK(client.minComments)
    IN /\ client.userData.most_active = server.most_active
       /\ client.userData.most_toxic = server.most_toxic
       /\ client.userData.most_liked = server.most_liked
       /\ client.userData.total_users = server.total_users

\* the author ranking of a users or complete-analysis response
RankingOf(resp) ==
  IF handler = "complete" THEN resp.data.users ELSE resp.data

\* list is a Top-K list of the authors of stats that passed threshold m,
\* by the criterion whose descending comparator is Before
IsTopK(list, stats, m, Before(_, _)) ==
  LET passed == {g \in 1..Len(stats) : stats[g].comment_count >= m}
  IN /\ \A k \in 1..Len(list) :
          /\ list[k].comment_count >= m
          /\ \E g \in passed : stats[g] = list[k]
     /\ \A k \in 1..(Len(list) - 1) : ~Before(list[k + 1], list[k])
     /\ Len(list) <= TopK
     /\ Len(list) = (IF Cardinality(passed) < TopK THEN Cardinality(passed) ELSE TopK)
     /\ \A g \in passed :
          \/ \E k \in 1..Len(list) : list[k] = stats[g]
          \/ Len(list) = TopK /\ ~Before(stats[g], list[TopK])

\* C11: a Top-K response for threshold m lists only authors with
\* comment_count >= m, each list in non-increasing order of its criterion,
\* with at most K = 10 entries and no left-out author ranking above an
\* included one; total_users is the number of authors that passed and
\* min_comments_threshold is m.
C11_TopKLists ==
  \A h \in {"users", "complete"} :
    (Succeeded(h) /\ ScanCompleted /\ ~getAllUsers) =>
      LET ranking == RankingOf(response)
      IN /\ IsTopK(ranking.most_active, userStats, minComments, ByCommentCount)
         /\ IsTopK(ranking.most_toxic, userStats, minComments, ByAverageToxicity)
         /\ IsTopK(ranking.most_liked, userStats, minComments, ByTotalLikes)
         /\ ranking.total_users =
              Cardinality({g \in 1..Len(userStats) :
                             userStats[g].comment_count >= minComments})
         /\ ranking.min_comments_threshold = minComments

\* C11 witness: more authors passed the threshold than a list holds: the
\* lists are cut to K entries while total_users counts every author that passed
C11_Witness ==
  /\ Succeeded("users")
  /\ ~getAllUsers
  /\ response.data.total_users > TopK
  /\ Len(response.data.most_toxic) = TopK
  /\ \E g \in 1..Len(userStats) :
       \A k \in 1..TopK : response.data.most_toxic[k] # userStats[g]

\* the per-author statistics the users route computes from the table, in
\* the insertion order of its group map
ServerUserStats ==
  FinalizeUsers(UsersFold(DedupMap(store).deduplicatedComments, <<>>))

\* position at which an author's entry was inserted into the group map
InsertedAt(stats, entry) ==
  CHOOSE g \in 1..Len(stats) :
    /\ stats[g] = entry
    /\ \A f \in 1..(g - 1) : stats[f] # entry

\* entries of list that tie on the criterion are in insertion order
TiesInInsertionOrder(list, stats, Before(_, _)) ==
  \A k \in 1..Len(list) : \A l \in (k + 1)..Len(list) :
    (~Before(list[k], list[l]) /\ ~Before(list[l], list[k]) /\ list[k] # list[l]) =>
      InsertedAt(stats, list[k]) < InsertedAt(stats, list[l])

RankingTiesInInsertionOrder(ranking, stats) ==
  /\ TiesInInsertionOrder(ranking.most_active, stats, ByCommentCount)
  /\ TiesInInsertionOrder(ranking.most_toxic, stats, ByAverageToxicity)
  /\ TiesInInsertionOrder(ranking.most_liked, stats, ByTotalLikes)

\* the lists returned by the users route keep ties in insertion order
ServerTiesInInsertionOrder ==
  (Succeeded("users") /\ ScanCompleted) =>
    RankingTiesInInsertionOrder(response.data, userStats)

\* C12: in every ranked list, of the users route and of the component's
\* filterUserData, authors that tie on the criterion are in the order in
\* which their keys were first inserted into the group map.
C12_TiesInInsertionOrder ==
  /\ ServerTiesInInsertionOrder
  /\ (client.loaded /\ client.pending = <<>>) =>
       RankingTiesInInsertionOrder(client.userData, ServerUserStats)

\* C13: for a channel with N videos and no qualifying comment the channel
\* summary is a success with video_count = N, comment_count = 0 and
\* average_toxicity = 0.  Stated for the channel without any comment row, the
\* case the handlers' empty branches answer.
C13_EmptyChannelSummary ==
  \A h \in {"summary", "analyzed", "complete"} :
    (handler = h /\ ScanCompleted /\ Len(allComments) = 0) =>
      /\ response.success
      /\ ChannelSummaryOf(response) = SummaryData(Len(VideosTable), 0, Zero)

\* C14: when no fetched record qualifies, every output is a success whose
\* numeric fields are 0 and whose lists are empty; no numeric field is NaN or
\* infinite from a division by a zero count or a max or min over nothing.
C14_EmptyButValid ==
  (ScanCompleted /\ ScoreBearingAt(allComments) = {}) =>
    /\ handler = "users" =>
         /\ response.success
         /\ response.data.most_active = <<>>
         /\ response.data.most_toxic = <<>>
         /\ response.data.most_liked = <<>>
         /\ response.data.total_users = 0
    /\ handler = "analytics" =>
         /\ response.success
         /\ IsNumber(response.data.comments.averageToxicity)
         /\ FracEq(response.data.comments.averageToxicity, Zero)
         /\ response.data.comments.totalToxic = 0
         /\ IsNumber(response.data.correlation.coefficient)
         /\ FracEq(response.data.correlation.coefficient, Zero)
    /\ handler = "insights" =>
         /\ response.success
         /\ \A field \in {"average_toxicity", "max_toxicity", "min_toxicity"} :
              /\ IsNumber(response.data.stats[field])
              /\ FracEq(response.data.stats[field], Zero)
         /\ response.data.stats.high_toxicity_count = 0
         /\ response.data.stats.medium_toxicity_count = 0
         /\ response.data.stats.low_toxicity_count = 0
         /\ response.data.most_toxic_comments = <<>>
         /\ response.data.most_liked_comments = <<>>

\* C15: the per-author, per-video and channel-wide views of one response
\* count the same comments: the per-author comment counts and the per-video
\* comment counts both add up to the channel comment_count.
C15_ViewsCountTheSameSet ==
  (Succeeded("complete") /\ ScanCompleted /\ Len(allComments) > 0) =>
    LET videos == response.data.videos
        ofAuthors == SumSeq([g \in 1..Len(userStats) |-> userStats[g].comment_count])
        ofVideos == SumSeq([v \in 1..Len(videos) |-> videos[v].comment_count])
    IN /\ ofAuthors = response.data.channel.comment_count
       /\ ofVideos = response.data.channel.comment_count

\* C16: two executions against the same unchanged storage return identical
\* outputs: a timeline request answered right after an answered timeline
\* request returns the same list, no value of it depending on the time of
\* the request.
C16_RepeatedRunsAgree ==
  (handler = "toxicity" /\ pc = "done" /\ AllFetched
     /\ response.success /\ earlier.success) =>
    response.data = earlier.data

\* the timeline of the stored rows when every fetch is answered at time t
TimelineAt(t) ==
  StableSort(Flatten([v \in 1..Len(VideosTable) |->
                        VideoPoint(VideosTable[v],
                                   VideoComments(store, VideosTable[v].id), t)]),
             ByTimestampAsc)

\* C17: the timeline of a request all of whose fetches were answered is
\* determined by the stored rows, whatever the order the fetches of the
\* videos complete in: it is the timeline of the fetches completing together.
C17_CompletionOrderIrrelevant ==
  (handler = "toxicity" /\ pc = "done" /\ response.success /\ AllFetched) =>
    \E t \in Now : response.data = TimelineAt(t)

RECURSIVE SumScoreTimesLikesAt(_, _)
SumScoreTimesLikesAt(comments, at) ==
  IF at = {} THEN 0
  ELSE LET i == CHOOSE i \in at : TRUE
       IN comments[i].comments_data.toxicity_score * comments[i].like_count
          + SumScoreTimesLikesAt(comments, at \ {i})

\* C18: the correlation coefficient is the sum of score times like count
\* over the deduplicated score-bearing comments, those of score 0 included,
\* divided by their number, and 0 when there is none.
C18_CorrelationIsMeanProduct ==
  (Succeeded("analytics") /\ ScanCompleted) =>
    LET kept == FirstSeen(allComments) \cap ScoreBearingAt(allComments)
        coefficient == response.data.correlation.coefficient
    IN /\ IsNumber(coefficient)
       /\ IF kept = {} THEN FracEq(coefficient, Zero)
          ELSE FracEq(coefficient,
                      Quotient(SumScoreTimesLikesAt(allComments, kept),
                               Cardinality(kept)))

\* a record with neither an author id nor a display name
Nameless(comment) == comment.user_id = NULL /\ comment.author_name = NULL

\* C19: a record with neither author id nor display name is grouped under a
\* placeholder of its own: the per-author groups are one per author id or
\* display name plus one per nameless record folded, so that two nameless
\* records are never in one group.
C19_NamelessRecordsKeptApart ==
  \A h \in {"users", "insights"} :
    (Succeeded(h) /\ ScanCompleted /\ Len(deduplicatedComments) > 0) =>
      LET folded == {i \in 1..Len(deduplicatedComments) :
                       IF h = "users" THEN ScoreBearing(deduplicatedComments[i])
                       ELSE InsightsHasData(deduplicatedComments[i])}
          nameless == {i \in folded : Nameless(deduplicatedComments[i])}
          named == {OrElse(deduplicatedComments[i].user_id,
                           deduplicatedComments[i].author_name) :
                      i \in folded \ nameless}
      IN Len(userStatsMap) = Cardinality(named) + Cardinality(nameless)

\* the earliest of the timestamps of the rows at the given positions
EarliestAt(comments, at) ==
  CHOOSE t \in {comments[i].timestamp : i \in at} :
    \A i \in at : t <= comments[i].timestamp

\* C20: the toxicity timeline has exactly one entry per video with at least
\* one deduplicated score-bearing comment; the entry carries the earliest
\* timestamp among those comments and their average toxicity; the entries
\* are in non-decreasing timestamp order.
C20_TimelinePerQualifyingVideo ==
  (Succeeded("complete") /\ ScanCompleted) =>
    LET timeline == response.data.toxicity
        kept == FirstSeen(allComments) \cap ScoreBearingAt(allComments)
        ofVideo(id) == {i \in kept : allComments[i].video_id = id}
        qualifying == {allComments[i].video_id : i \in kept}
    IN /\ Len(timeline) = Cardinality(qualifying)
       /\ {timeline[k].video_id : k \in 1..Len(timeline)} = qualifying
       /\ \A k \in 1..Len(timeline) :
            LET members == ofVideo(timeline[k].video_id)
            IN /\ timeline[k].timestamp = EarliestAt(allComments, members)
               /\ FracEq(timeline[k].toxicity_score,
                         Quotient(SumScoresAt(allComments, members),
                                  Cardinality(members)))
       /\ \A k \in 1..(Len(timeline) - 1) :
            timeline[k].timestamp <= timeline[k + 1].timestamp

\* C21: aggregateResults returns one entry per distinct videoId of its
\* input; comments_analyzed is the number of input comments of the video,
\* these numbers add up to the input length, toxicity_avg is the mean of
\* their scores and toxic_comment_pct is 100 times the fraction of them
\* whose score is strictly greater than 0.5.
C21_AggregateResults ==
  aggregated # <<>> =>
    LET entries == aggregated[1]
        ofVideo(id) == {i \in 1..Len(analyzedComments) :
                          analyzedComments[i].videoId = id}
        score(i) == analyzedComments[i].toxicityScore
    IN /\ {entries[k].videoId : k \in 1..Len(entries)}
            = {analyzedComments[i].videoId : i \in 1..Len(analyzedComments)}
       /\ \A k, l \in 1..Len(entries) :
            entries[k].videoId = entries[l].videoId => k = l
       /\ SumSeq([k \in 1..Len(entries) |-> entries[k].comments_analyzed])
            = Len(analyzedComments)
       /\ \A k \in 1..Len(entries) :
            LET members == ofVideo(entries[k].videoId)
                n == Cardinality(members)
            IN /\ entries[k].comments_analyzed = n
               /\ IsNumber(entries[k].toxicity_avg)
               /\ FracEq(entries[k].toxicity_avg,
                         Quotient(SumSeq([i \in 1..Len(analyzedComments) |->
                                            IF i \in members THEN score(i) ELSE 0]),
                                  n))
               /\ IsNumber(entries[k].toxic_comment_pct)
               /\ FracEq(entries[k].toxic_comment_pct,
                         Quotient(100 * Cardinality({i \in members : score(i) > 50}),
                                  n))

\* aggregateResults has returned for comments of two videos, one of them
\* scored exactly 0.5 and one above
C21_Witness ==
  /\ aggregated # <<>>
  /\ Len(aggregated[1]) = 2
  /\ \E i, j \in 1..Len(analyzedComments) :
       /\ analyzedComments[i].toxicityScore = 50
       /\ analyzedComments[j].toxicityScore > 50
       /\ analyzedComments[i].videoId = analyzedComments[j].videoId

\* the videoToxicityMap of the complete analysis after the first n fetched rows
TimelineMapAfter(n) ==
  TimelineFold(SelectSeq(SubSeq(allComments, 1, n), CompleteIsValid), <<>>)

\* C22: during the fold a group's earliest timestamp is replaced only by a
\* comment of the group whose timestamp is strictly earlier than the stored
\* one, and after the fold it is the minimum timestamp over the group's
\* qualifying comments, the deduplicated score-bearing comments of the video.
C22_EarliestTimestamp ==
  (Succeeded("complete") /\ ScanCompleted) =>
    LET kept == FirstSeen(allComments) \cap ScoreBearingAt(allComments)
        final == TimelineMapAfter(Len(allComments))
    IN /\ \A n \in 1..Len(allComments) :
            LET before == TimelineMapAfter(n - 1)
                after == TimelineMapAfter(n)
            IN \A g \in 1..Len(before) :
                 after[g].earliest_timestamp # before[g].earliest_timestamp =>
                   /\ allComments[n].video_id = before[g].video_id
                   /\ allComments[n].timestamp < before[g].earliest_timestamp
                   /\ after[g].earliest_timestamp = allComments[n].timestamp
       /\ \A g \in 1..Len(final) :
            LET members == {i \in kept : allComments[i].video_id = final[g].video_id}
            IN members # {} =>
                 final[g].earliest_timestamp = EarliestAt(allComments, members)

\* C23: within a request of the users route the phases follow one another:
\* while the scan runs nothing is deduplicated, aggregated or ranked; the
\* answer is computed only after the final short page; no page is asked for
\* twice; and a failed page request is the last request, never retried.
C23_PhaseOrder ==
  handler = "users" =>
    /\ pc = "scanning" =>
         /\ uniqueComments = {}
         /\ deduplicatedComments = <<>>
         /\ userStatsMap = <<>>
         /\ userStats = <<>>
         /\ response = NoResponse
    /\ \A k \in 1..Len(requests) :
         requests[k].error =>
           /\ k = Len(requests)
           /\ pc = "done"
           /\ ~response.success
           /\ deduplicatedComments = <<>>
           /\ userStatsMap = <<>>
    /\ \A j, k \in 1..Len(requests) :
         j < k => requests[j].offset < requests[k].offset
    /\ (pc = "done" /\ response.success) =>
         /\ requests # <<>>
         /\ requests[Len(requests)].returned < pageSize
         /\ ~hasMoreData

\* a request of the users route was answered after a full page and the final
\* short page, with comments deduplicated, aggregated and ranked
C23_Witness ==
  /\ Succeeded("users")
  /\ Len(requests) >= 2
  /\ deduplicatedComments # <<>>
  /\ userStatsMap # <<>>
  /\ response.data.total_users > 0

\* C24: every group of the per-author map has at least one comment when the
\* averages are computed, so that no average is a division by zero: each
\* finalized comment_count is at least 1 and each average_toxicity a number.
C24_GroupsNeverEmpty ==
  (handler \in {"users", "complete"} /\ pc = "done") =>
    /\ \A g \in 1..Len(userStatsMap) : Len(userStatsMap[g].comments) >= 1
    /\ Len(userStats) = Len(userStatsMap)
    /\ \A g \in 1..Len(userStats) :
         /\ userStats[g].comment_count >= 1
         /\ IsNumber(userStats[g].average_toxicity)

\* averages were computed for the groups of a table that has a row without
\* score next to scored rows
C24_Witness ==
  /\ handler \in {"users", "complete"}
  /\ pc = "done"
  /\ Len(userStats) >= 2
  /\ \E i \in 1..Len(allComments) : ~ScoreBearing(allComments[i])

\* a record that lacks its text or both of its author fields
Malformed(comment) == comment.text = NULL \/ Nameless(comment)

\* the ids of the records of the given rows that the users route aggregates:
\* retained by the dedup and carrying a score
AggregatedIds(rows) ==
  LET retained == DedupMap(rows).deduplicatedComments
  IN {retained[k].id : k \in {j \in 1..Len(retained) : UsersHasScore(retained[j])}}

RemoveAt(s, i) == SubSeq(s, 1, i - 1) \o SubSeq(s, i + 1, Len(s))

\* C25: a record without text or without author fields does not fail the
\* request, and every other record is aggregated exactly as it would be
\* without that record: the records aggregated next to it are the records
\* aggregated from the same rows with the malformed one left out.
C25_MalformedRecordTolerated ==
  (handler = "users" /\ ScanCompleted) =>
    /\ response.success
    /\ \A i \in 1..Len(allComments) :
         Malformed(allComments[i]) =>
           AggregatedIds(allComments) \ {allComments[i].id}
             = AggregatedIds(RemoveAt(allComments, i))

Loading == {c \in Callers : callers[c].pc = "loading"}

ClassifierSafe ==
  /\ Cardinality(Loading) <= 1
  /\ \A c \in Callers :
       /\ callers[c].pc = "returned" =>
            callers[c].value = Pipeline /\ classifier = Pipeline
       /\ callers[c].pc = "thrown" => callers[c].value = LoadError

\* C27: under concurrent calls of initializeClassifier at most one pipeline
\* load is in flight, every caller that gets an answer returns the loaded,
\* non-null classifier or throws the initialization error, and once no load
\* is in flight any more no caller keeps waiting.
C27_SingleLoad ==
  /\ []ClassifierSafe
  /\ (<>[](~isInitializing)) => <>[](\A c \in Callers : callers[c].pc # "waiting")

\* one caller got the error of a failed load, the next loaded the classifier,
\* and a third is answered with it
C27_Witness ==
  /\ callers["c1"].pc = "thrown"
  /\ callers["c2"].pc = "returned"
  /\ callers["c3"].pc = "returned"
  /\ initializationError = NULL

\* C30: once the classifier is initialised analyzeComments returns exactly one
\* scored result per input comment, in input order, and a comment whose
\* classification throws gets the neutral score 0.5; it fails only when the
\* classifier could not be loaded.
C30_OneResultPerComment ==
  /\ analysis.pc = "thrown" => classifier = NULL
  /\ analysis.pc = "returned" =>
       /\ Len(analysis.results) = Len(inputComments)
       /\ \A i \in 1..Len(inputComments) :
            /\ analysis.results[i].text = inputComments[i].text
            /\ analysis.results[i].videoId = inputComments[i].videoId
            /\ analysis.results[i].toxicityScore =
                 (CASE outcomes[i].kind = "threw" -> 50
                    [] outcomes[i].label = "NEGATIVE" -> outcomes[i].score
                    [] OTHER -> 100 - outcomes[i].score)

\* three comments returned, the classification of the second threw and the
\* third was answered before the first
C30_Witness ==
  /\ analysis.pc = "returned"
  /\ Len(inputComments) = 3
  /\ inputComments[1] # inputComments[3]
  /\ outcomes[1].kind = "answer"
  /\ outcomes[2].kind = "threw"
  /\ outcomes[3].kind = "answer"

\* C29: whatever handleAnalysisStart, handleAnalysisComplete, the data
\* fetches, the timer and handleStartNew have done, once nothing the page
\* started is still in flight exactly one of the input form, the progress
\* view and the results view is rendered.
C29_ExactlyOneView ==
  inFlight = {} => Cardinality(ViewsRendered(home)) = 1

\* how many positions of the list hold the element
Occurrences(list, x) == Cardinality({i \in 1..Len(list) : list[i] = x})

\* the two lists hold the same elements, each as often
SameElements(a, b) ==
  /\ Len(a) = Len(b)
  /\ \A i \in 1..Len(a) : Occurrences(a, a[i]) = Occurrences(b, a[i])

\* C28: with get_all=true the three lists of the answer are permutations of
\* one another, hold the statistics of every author group whatever
\* min_comments is, and total_users is their common length.
C28_AllModeLists ==
  ((Succeeded("users") \/ Succeeded("complete")) /\ getAllUsers) =>
    LET ranking == RankingOf(response)
        everyGroup == IF Len(allComments) = 0 THEN <<>>
                      ELSE FinalizeUsers(userStatsMap)
    IN /\ SameElements(ranking.most_active, everyGroup)
       /\ SameElements(ranking.most_toxic, everyGroup)
       /\ SameElements(ranking.most_liked, everyGroup)
       /\ ranking.total_users = Len(ranking.most_active)
       /\ ranking.total_users = Len(ranking.most_toxic)
       /\ ranking.total_users = Len(ranking.most_liked)

\* an answer in 'all' mode to a request with min_comments = 2 that lists an
\* author of one comment next to an author of two
C28_Witness ==
  /\ Succeeded("users")
  /\ getAllUsers
  /\ minComments = 2
  /\ Len(response.data.most_active) = 2
  /\ response.data.most_active[1].comment_count = 2
  /\ response.data.most_active[2].comment_count = 1
  /\ response.data.most_toxic # response.data.most_active

=============================================================================
